---- MODULE Spec2Model ----
(***************************************************************************)
(* Hash indexes (Hash32Index, Hash64Index, HashStrIndex), their iterator,  *)
(* and the tuple dictionary of locker/tarantool.                           *)
(*                                                                         *)
(* A u32/u64 key is represented by its little-endian bytes (the sequence   *)
(* of the 4 or 8 bytes the code reads), which is in bijection with the     *)
(* integer and keeps every value inside TLC's integer range.               *)
(***************************************************************************)
EXTENDS Integers, Sequences, FiniteSets, TLC

VARIABLES
    watch,     \* TRUE when the history keeps the key of a keyed iterator while
               \* the index changes under it
    kind,      \* the index_type and first key part type given to Index alloc
    variant,   \* the class Index alloc returned: "Hash32", "Hash64", "HashStr"
    hash,      \* int_hash / int64_hash / str_hash of the index
    it,        \* the struct hash_iterator the caller holds
    ret,       \* the last call on the index and its outcome
    trace,     \* history of the iterator since its last initIterator
    present,   \* the key values inserted and not deleted since
    fatal,     \* the process died (SIGSEGV or failed assertion)
    dicts,     \* the tuple_dictionary wrappers, by address
    live,      \* number of live allocations, by kind
    built,     \* the name list each live dictionary was constructed from
    dret,      \* the last call on the dictionaries and its outcome
    space,     \* the space array: enabled flag and index slots of each space
    bpos,      \* where build_indexes stands: its loop counters n and idx
    blog,      \* the [TreeIndex build:] calls made so far, in order
    recovery_state,  \* server_uuid, server_id and vclock of the recovery
    called     \* the cluster_add_server calls that carried the local UUID

vars ==
    <<watch, kind, variant, hash, it, ret, trace, present, fatal, dicts, live,
      built, dret, space, bpos, blog, recovery_state, called>>
ixvars == <<watch, kind, variant, hash, it, ret, trace, present, fatal>>
dvars == <<dicts, live, built, dret>>
bvars == <<space, bpos, blog>>
cvars == <<recovery_state, called>>
ovars == <<space, bpos, blog, recovery_state, called>>

----------------------------------------------------------------------------
(* Bounds *)

\* Number of distinct well-formed key values offered to an index.
MaxKey == 2
\* Buckets of a freshly initialised hash table.
InitBuckets == 1

\* Iterator advances recorded after one initIterator: enough to visit every
\* key, reach end-of-sequence and call once more.
MaxCalls == MaxKey + 2

----------------------------------------------------------------------------
(* Records (struct box_tuple) and their fields *)

\* The NULL tuple pointer.
NULL == [id |-> 0, fields |-> <<>>]
\* The NULL field pointer (a real field holds at least its length prefix).
NULLFIELD == <<>>

RECURSIVE Repeat(_, _)
Repeat(b, n) == IF n = 0 THEN <<>> ELSE <<b>> \o Repeat(b, n - 1)

\* A well-formed field: one-byte length prefix followed by that many bytes.
MkField(data) == <<Len(data)>> \o data

U32Field(k) == MkField(<<k>> \o Repeat(0, 3))
U64Field(k) == MkField(<<k>> \o Repeat(0, 7))
StrField(k) == IF k % 4 = 1 THEN MkField(<<k>>) ELSE MkField(<<k, k + 1>>)

\* The key values offered: odd numbers, so that keys share a home bucket in
\* a table with an even number of buckets and probe past one another.
KeyValues == {2 * k - 1 : k \in 1..MaxKey}

\* Fields of the width the variant expects.
ValidFields(v) ==
    CASE v = "Hash32" -> {U32Field(k) : k \in KeyValues}
      [] v = "Hash64" -> {U64Field(k) : k \in KeyValues}
      [] OTHER        -> {StrField(k) : k \in KeyValues}

\* Fields of another width: a 64-bit key offered to the 32-bit index and a
\* 32-bit key offered to the 64-bit index. Every field is a string key.
WrongFields(v) ==
    CASE v = "Hash32" -> {U64Field(1)}
      [] v = "Hash64" -> {U32Field(1)}
      [] OTHER        -> {}

Fields(v) == ValidFields(v) \cup WrongFields(v)

\* The index is defined over field 0 of the tuple.
key_def == [parts |-> <<[fieldno |-> 0]>>]

\* Two tuples (addresses) carry each key value: the record an index holds
\* and the record that replaces it.
TupleIds == {1, 2}

\* Tuples whose key field has the width the variant expects.
ValidTuples(v) ==
    {[id |-> i, fields |-> <<f>>] : i \in TupleIds, f \in ValidFields(v)}

\* These, a tuple with a key field of another width and a tuple with no
\* field at all.
Tuples(v) ==
    ValidTuples(v)
    \cup {[id |-> 1, fields |-> <<f>>] : f \in WrongFields(v)}
    \cup {[id |-> 1, fields |-> <<>>]}

\* tuple_field(): the field at fieldno, NULL when the tuple has fewer fields.
tuple_field(tuple, fieldno) ==
    IF fieldno < Len(tuple.fields) THEN tuple.fields[fieldno + 1] ELSE NULLFIELD

\* load_varint32(): decode the BER length prefix (7 bits per byte, high bit
\* set on every byte but the last) and step over it.
RECURSIVE varint_decode(_, _)
varint_decode(bytes, acc) ==
    IF bytes[1] >= 128
    THEN varint_decode(Tail(bytes), acc * 128 + (bytes[1] - 128))
    ELSE [val |-> acc * 128 + bytes[1], rest |-> Tail(bytes)]

load_varint32(field) == varint_decode(field, 0)

\* What may lie in memory after a field, for a read that runs past its end.
OverRead == {Repeat(0, 8), Repeat(7, 8)}

\* The bytes a read of w bytes at the data of a field may find after it: any,
\* when the field is shorter than w, and none that matter otherwise.
TailBytes(field, w) ==
    IF field # NULLFIELD /\ Len(load_varint32(field).rest) < w
    THEN OverRead ELSE {<<>>}

\* *(u32 *)p and *(u64 *)p: the first w bytes at p; past the end of the
\* field's data the bytes are whatever follows it in memory.
read_num(data, w, pad) == SubSeq(data \o pad, 1, w)

----------------------------------------------------------------------------
(* The open-addressing hash table (mh_i32ptr, mh_i64ptr, mh_lstrptr) *)

EmptySlot == [st |-> "empty", key |-> <<>>, val |-> NULL]

mh_init ==
    [n_buckets |-> InitBuckets, size |-> 0,
     slots |-> [i \in 0..(InitBuckets - 1) |-> EmptySlot]]

mh_begin(h) == 0
mh_end(h) == h.n_buckets
mh_size(h) == h.size
mh_exist(h, i) == h.slots[i].st = "exist"
mh_value(h, i) == h.slots[i].val

RECURSIVE SumBytes(_)
SumBytes(s) == IF s = <<>> THEN 0 ELSE s[1] + SumBytes(Tail(s))

mh_hash(key) == SumBytes(key)

\* Probe from the key's home bucket: a hit on the key, or mh_end at the first
\* never-used slot or after a full turn.
RECURSIVE mh_probe(_, _, _, _)
mh_probe(h, key, i, n) ==
    IF n = 0 THEN mh_end(h)
    ELSE IF h.slots[i].st = "exist" /\ h.slots[i].key = key THEN i
    ELSE IF h.slots[i].st = "empty" THEN mh_end(h)
    ELSE mh_probe(h, key, (i + 1) % h.n_buckets, n - 1)

mh_get(h, key) == mh_probe(h, key, mh_hash(key) % h.n_buckets, h.n_buckets)

\* First slot on the key's probe path that holds no entry.
RECURSIVE mh_free_slot(_, _)
mh_free_slot(h, i) ==
    IF h.slots[i].st # "exist" THEN i ELSE mh_free_slot(h, (i + 1) % h.n_buckets)

mh_place(h, key, val) ==
    LET i == mh_free_slot(h, mh_hash(key) % h.n_buckets)
    IN [h EXCEPT !.slots[i] = [st |-> "exist", key |-> key, val |-> val],
                 !.size = h.size + 1]

RECURSIVE mh_rehash(_, _, _)
mh_rehash(h, g, i) ==
    IF i = h.n_buckets THEN g
    ELSE IF mh_exist(h, i)
         THEN mh_rehash(h, mh_place(g, h.slots[i].key, h.slots[i].val), i + 1)
         ELSE mh_rehash(h, g, i + 1)

\* Grow by rehashing every entry into a table twice as large.
mh_grow(h) ==
    mh_rehash(h, [n_buckets |-> 2 * h.n_buckets, size |-> 0,
                  slots |-> [i \in 0..(2 * h.n_buckets - 1) |-> EmptySlot]], 0)

\* put: overwrite the entry of the key, or insert (growing a full table).
mh_put(h, key, val) ==
    LET k == mh_get(h, key)
    IN IF k # mh_end(h) THEN [h EXCEPT !.slots[k].val = val]
       ELSE mh_place(IF h.size = h.n_buckets THEN mh_grow(h) ELSE h, key, val)

\* del: leave a tombstone in the slot.
mh_del(h, k) ==
    [h EXCEPT !.slots[k] = [st |-> "deleted", key |-> <<>>, val |-> NULL],
              !.size = h.size - 1]

----------------------------------------------------------------------------
(* struct hash_iterator and the iterator functions *)

\* allocIterator: memset to 0, then next and free set.
HashIndex_allocIterator ==
    [next |-> "hash_iterator_next", next_equal |-> "NULL", hash |-> "NULL",
     h_pos |-> 0]

\* The while loop of hash_iterator_next: first occupied slot at or after pos.
RECURSIVE hash_iterator_scan(_, _)
hash_iterator_scan(h, pos) ==
    IF pos = mh_end(h) THEN pos
    ELSE IF mh_exist(h, pos) THEN pos
    ELSE hash_iterator_scan(h, pos + 1)

\* Variant of hash_iterator_next that leaves h_pos on the slot it returns.
hash_iterator_next_noStep(i, h) ==
    LET p == hash_iterator_scan(h, i.h_pos)
    IN [it |-> [i EXCEPT !.h_pos = p],
        val |-> IF p # mh_end(h) THEN mh_value(h, p) ELSE NULL]

hash_iterator_next(i, h) ==
    LET p == hash_iterator_scan(h, i.h_pos)
    IN IF p # mh_end(h)
       THEN [it |-> [i EXCEPT !.h_pos = p + 1], val |-> mh_value(h, p)]
       ELSE [it |-> [i EXCEPT !.h_pos = p], val |-> NULL]

\* Variant of iterator_next_equal that keeps scanning the table.
iterator_next_equal_scan(i, h) == hash_iterator_next(i, h)

iterator_next_equal(i, h) == [it |-> i, val |-> NULL]

\* Variant of iterator_first_equal that does not switch next_equal.
iterator_first_equal_sticky(i, h) == hash_iterator_next(i, h)

iterator_first_equal(i, h) ==
    hash_iterator_next([i EXCEPT !.next_equal = "iterator_next_equal"], h)

----------------------------------------------------------------------------
(* Hash32Index *)

Hash32Index_size(h) == mh_size(h)

Hash32Index_find(h, field) ==
    LET lv == load_varint32(field)
        field_size == lv.val
    IN IF field_size # 4
       THEN [err |-> "IllegalParams", val |-> NULL]
       ELSE LET num == read_num(lv.rest, 4, <<>>)
                k == mh_get(h, num)
            IN [err |-> "ok",
                val |-> IF k # mh_end(h) THEN mh_value(h, k) ELSE NULL]

\* Variant of remove that rejects a key without an entry.
Hash32Index_remove_strict(h, tuple) ==
    LET field == tuple_field(tuple, key_def.parts[1].fieldno)
    IN IF field = NULLFIELD
       THEN [err |-> "SIGSEGV", hash |-> h]
       ELSE LET lv == load_varint32(field)
            IN IF lv.val # 4
               THEN [err |-> "IllegalParams", hash |-> h]
               ELSE LET k == mh_get(h, read_num(lv.rest, 4, <<>>))
                    IN IF k # mh_end(h)
                       THEN [err |-> "ok", hash |-> mh_del(h, k)]
                       ELSE [err |-> "IllegalParams", hash |-> h]

Hash32Index_remove(h, tuple) ==
    LET field == tuple_field(tuple, key_def.parts[1].fieldno)
    IN IF field = NULLFIELD
       THEN [err |-> "SIGSEGV", hash |-> h]
       ELSE LET lv == load_varint32(field)
                field_size == lv.val
            IN IF field_size # 4
               THEN [err |-> "IllegalParams", hash |-> h]
               ELSE LET num == read_num(lv.rest, 4, <<>>)
                        k == mh_get(h, num)
                    IN [err |-> "ok",
                        hash |-> IF k # mh_end(h) THEN mh_del(h, k) ELSE h]

\* Variant of replace that never deletes the entry of old_tuple.
Hash32Index_replace_keepsOld(h, old_tuple, new_tuple, pad) ==
    LET field == tuple_field(new_tuple, key_def.parts[1].fieldno)
    IN IF field = NULLFIELD
       THEN [err |-> "SIGSEGV", hash |-> h]
       ELSE LET lv == load_varint32(field)
            IN IF lv.val # 4
               THEN [err |-> "IllegalParams", hash |-> h]
               ELSE IF old_tuple # NULL /\
                       tuple_field(old_tuple, key_def.parts[1].fieldno) = NULLFIELD
                    THEN [err |-> "SIGSEGV", hash |-> h]
                    ELSE [err |-> "ok",
                          hash |-> mh_put(h, read_num(lv.rest, 4, <<>>), new_tuple)]

Hash32Index_replace(h, old_tuple, new_tuple, pad) ==
    LET field == tuple_field(new_tuple, key_def.parts[1].fieldno)
    IN IF field = NULLFIELD
       THEN [err |-> "SIGSEGV", hash |-> h]
       ELSE LET lv == load_varint32(field)
                field_size == lv.val
            IN IF field_size # 4
               THEN [err |-> "IllegalParams", hash |-> h]
               ELSE LET num == read_num(lv.rest, 4, <<>>)
                        old_field ==
                            tuple_field(old_tuple, key_def.parts[1].fieldno)
                    IN IF old_tuple # NULL /\ old_field = NULLFIELD
                       THEN [err |-> "SIGSEGV", hash |-> h]
                       ELSE LET old_num ==
                                    read_num(load_varint32(old_field).rest, 4, pad)
                                k == mh_get(h, old_num)
                                h1 == IF old_tuple # NULL /\ k # mh_end(h)
                                      THEN mh_del(h, k) ELSE h
                            IN [err |-> "ok",
                                hash |-> mh_put(h1, num, new_tuple)]

Hash32Index_initIterator(i, h) ==
    [i EXCEPT !.next_equal = "NULL", !.h_pos = mh_begin(h), !.hash = "int_hash"]

Hash32Index_initIteratorKey(i, h, key) ==
    LET lv == load_varint32(key)
        field_size == lv.val
    IN IF field_size # 4
       THEN [err |-> "IllegalParams", it |-> i]
       ELSE LET num == read_num(lv.rest, 4, <<>>)
            IN [err |-> "ok",
                it |-> [i EXCEPT !.next_equal = "iterator_first_equal",
                                 !.h_pos = mh_get(h, num),
                                 !.hash = "int_hash"]]

----------------------------------------------------------------------------
(* Hash64Index *)

Hash64Index_size(h) == mh_size(h)

Hash64Index_find(h, field) ==
    LET lv == load_varint32(field)
        field_size == lv.val
    IN IF field_size # 8
       THEN [err |-> "IllegalParams", val |-> NULL]
       ELSE LET num == read_num(lv.rest, 8, <<>>)
                k == mh_get(h, num)
            IN [err |-> "ok",
                val |-> IF k # mh_end(h) THEN mh_value(h, k) ELSE NULL]

\* Variant of remove that drops every entry of the table with the one found.
Hash64Index_remove_dropsAll(h, tuple) ==
    LET field == tuple_field(tuple, key_def.parts[1].fieldno)
    IN IF field = NULLFIELD
       THEN [err |-> "SIGSEGV", hash |-> h]
       ELSE LET lv == load_varint32(field)
                field_size == lv.val
            IN IF field_size # 8
               THEN [err |-> "IllegalParams", hash |-> h]
               ELSE LET num == read_num(lv.rest, 8, <<>>)
                        k == mh_get(h, num)
                    IN [err |-> "ok",
                        hash |-> IF k # mh_end(h) THEN mh_init ELSE h]

Hash64Index_remove(h, tuple) ==
    LET field == tuple_field(tuple, key_def.parts[1].fieldno)
    IN IF field = NULLFIELD
       THEN [err |-> "SIGSEGV", hash |-> h]
       ELSE LET lv == load_varint32(field)
                field_size == lv.val
            IN IF field_size # 8
               THEN [err |-> "IllegalParams", hash |-> h]
               ELSE LET num == read_num(lv.rest, 8, <<>>)
                        k == mh_get(h, num)
                    IN [err |-> "ok",
                        hash |-> IF k # mh_end(h) THEN mh_del(h, k) ELSE h]

\* Variant of replace that checks the new key's size only after old_tuple's
\* entry has been deleted.
Hash64Index_replace_lateCheck(h, old_tuple, new_tuple, pad) ==
    LET field == tuple_field(new_tuple, key_def.parts[1].fieldno)
    IN IF field = NULLFIELD
       THEN [err |-> "SIGSEGV", hash |-> h]
       ELSE LET lv == load_varint32(field)
                old_field == tuple_field(old_tuple, key_def.parts[1].fieldno)
            IN IF old_tuple # NULL /\ old_field = NULLFIELD
               THEN [err |-> "SIGSEGV", hash |-> h]
               ELSE LET old_num ==
                            read_num(load_varint32(old_field).rest, 8, pad)
                        k == mh_get(h, old_num)
                        h1 == IF old_tuple # NULL /\ k # mh_end(h)
                              THEN mh_del(h, k) ELSE h
                    IN IF lv.val # 8
                       THEN [err |-> "IllegalParams", hash |-> h1]
                       ELSE [err |-> "ok",
                             hash |-> mh_put(h1, read_num(lv.rest, 8, <<>>),
                                             new_tuple)]

Hash64Index_replace(h, old_tuple, new_tuple, pad) ==
    LET field == tuple_field(new_tuple, key_def.parts[1].fieldno)
    IN IF field = NULLFIELD
       THEN [err |-> "SIGSEGV", hash |-> h]
       ELSE LET lv == load_varint32(field)
                field_size == lv.val
            IN IF field_size # 8
               THEN [err |-> "IllegalParams", hash |-> h]
               ELSE LET num == read_num(lv.rest, 8, <<>>)
                        old_field ==
                            tuple_field(old_tuple, key_def.parts[1].fieldno)
                    IN IF old_tuple # NULL /\ old_field = NULLFIELD
                       THEN [err |-> "SIGSEGV", hash |-> h]
                       ELSE LET old_num ==
                                    read_num(load_varint32(old_field).rest, 8, pad)
                                k == mh_get(h, old_num)
                                h1 == IF old_tuple # NULL /\ k # mh_end(h)
                                      THEN mh_del(h, k) ELSE h
                            IN [err |-> "ok",
                                hash |-> mh_put(h1, num, new_tuple)]

Hash64Index_initIterator(i, h) ==
    [i EXCEPT !.next_equal = "NULL", !.h_pos = mh_begin(h), !.hash = "int64_hash"]

Hash64Index_initIteratorKey(i, h, key) ==
    LET lv == load_varint32(key)
        field_size == lv.val
    IN IF field_size # 8
       THEN [err |-> "IllegalParams", it |-> i]
       ELSE LET num == read_num(lv.rest, 8, <<>>)
            IN [err |-> "ok",
                it |-> [i EXCEPT !.next_equal = "iterator_first_equal",
                                 !.h_pos = mh_get(h, num),
                                 !.hash = "int64_hash"]]

----------------------------------------------------------------------------
(* HashStrIndex: the key is the length-prefixed field, matched by content *)

HashStrIndex_size(h) == mh_size(h)

HashStrIndex_find(h, field) ==
    LET k == mh_get(h, field)
    IN [err |-> "ok", val |-> IF k # mh_end(h) THEN mh_value(h, k) ELSE NULL]

\* Variant of remove that looks the key up and deletes nothing.
HashStrIndex_remove_lookupOnly(h, tuple) ==
    LET field == tuple_field(tuple, key_def.parts[1].fieldno)
    IN IF field = NULLFIELD
       THEN [err |-> "SIGSEGV", hash |-> h]
       ELSE [err |-> "ok", hash |-> h]

HashStrIndex_remove(h, tuple) ==
    LET field == tuple_field(tuple, key_def.parts[1].fieldno)
    IN IF field = NULLFIELD
       THEN [err |-> "SIGSEGV", hash |-> h]
       ELSE LET k == mh_get(h, field)
            IN [err |-> "ok",
                hash |-> IF k # mh_end(h) THEN mh_del(h, k) ELSE h]

\* Variant of replace that stores old_tuple back when one is given.
HashStrIndex_replace_putsOld(h, old_tuple, new_tuple, pad) ==
    LET field == tuple_field(new_tuple, key_def.parts[1].fieldno)
    IN IF field = NULLFIELD
       THEN [err |-> "ER_NO_SUCH_FIELD", hash |-> h]
       ELSE LET old_field == tuple_field(old_tuple, key_def.parts[1].fieldno)
            IN IF old_tuple # NULL /\ old_field = NULLFIELD
               THEN [err |-> "SIGSEGV", hash |-> h]
               ELSE LET k == mh_get(h, old_field)
                        h1 == IF old_tuple # NULL /\ k # mh_end(h)
                              THEN mh_del(h, k) ELSE h
                    IN [err |-> "ok",
                        hash |-> mh_put(h1, field,
                                        IF old_tuple # NULL THEN old_tuple
                                        ELSE new_tuple)]

HashStrIndex_replace(h, old_tuple, new_tuple, pad) ==
    LET field == tuple_field(new_tuple, key_def.parts[1].fieldno)
    IN IF field = NULLFIELD
       THEN [err |-> "ER_NO_SUCH_FIELD", hash |-> h]
       ELSE LET old_field == tuple_field(old_tuple, key_def.parts[1].fieldno)
            IN IF old_tuple # NULL /\ old_field = NULLFIELD
               THEN [err |-> "SIGSEGV", hash |-> h]
               ELSE LET k == mh_get(h, old_field)
                        h1 == IF old_tuple # NULL /\ k # mh_end(h)
                              THEN mh_del(h, k) ELSE h
                    IN [err |-> "ok", hash |-> mh_put(h1, field, new_tuple)]

HashStrIndex_initIterator(i, h) ==
    [i EXCEPT !.next_equal = "NULL", !.h_pos = mh_begin(h), !.hash = "str_hash"]

HashStrIndex_initIteratorKey(i, h, key) ==
    [err |-> "ok",
     it |-> [i EXCEPT !.next_equal = "iterator_first_equal",
                      !.h_pos = mh_get(h, key),
                      !.hash = "str_hash"]]

----------------------------------------------------------------------------
(* Method dispatch on the class of the index *)

Variants == {"Hash32", "Hash64", "HashStr"}

\* enum index_type and enum field_data_type as Index alloc sees them; "OTHER"
\* is any value without a case of its own.
IndexTypes == {"HASH", "TREE", "OTHER"}
FieldTypes == {"NUM", "NUM64", "STRING", "OTHER"}

\* Variant of Index alloc that does not look at the type of the key part.
Index_alloc_anyKey(type, key_type) ==
    CASE type = "HASH" -> "Hash32"
      [] type = "TREE" -> "TreeIndex"
      [] OTHER -> "panic"

\* + alloc: the class of the index, or "panic" for panic("unsupported index
\* type").
Index_alloc(type, key_type) ==
    CASE type = "HASH" ->
            (CASE key_type = "NUM" -> "Hash32"
               [] key_type = "NUM64" -> "Hash64"
               [] key_type = "STRING" -> "HashStr"
               [] OTHER -> "panic")
      [] type = "TREE" -> "TreeIndex"
      [] OTHER -> "panic"

\* Variant of min that returns the first record of the table.
HashIndex_min_first(h) ==
    LET p == hash_iterator_scan(h, mh_begin(h))
    IN [err |-> "ok", val |-> IF p # mh_end(h) THEN mh_value(h, p) ELSE NULL]

HashIndex_min(h) == [err |-> "ER_UNSUPPORTED", val |-> NULL]

HashIndex_max(h) == [err |-> "ER_UNSUPPORTED", val |-> NULL]

Index_size(v, h) ==
    CASE v = "Hash32" -> Hash32Index_size(h)
      [] v = "Hash64" -> Hash64Index_size(h)
      [] OTHER        -> HashStrIndex_size(h)

Index_find(v, h, field) ==
    CASE v = "Hash32" -> Hash32Index_find(h, field)
      [] v = "Hash64" -> Hash64Index_find(h, field)
      [] OTHER        -> HashStrIndex_find(h, field)

Index_remove(v, h, tuple) ==
    CASE v = "Hash32" -> Hash32Index_remove(h, tuple)
      [] v = "Hash64" -> Hash64Index_remove(h, tuple)
      [] OTHER        -> HashStrIndex_remove(h, tuple)

Index_replace(v, h, old_tuple, new_tuple, pad) ==
    CASE v = "Hash32" -> Hash32Index_replace(h, old_tuple, new_tuple, pad)
      [] v = "Hash64" -> Hash64Index_replace(h, old_tuple, new_tuple, pad)
      [] OTHER        -> HashStrIndex_replace(h, old_tuple, new_tuple, pad)

Index_initIterator(v, i, h) ==
    CASE v = "Hash32" -> Hash32Index_initIterator(i, h)
      [] v = "Hash64" -> Hash64Index_initIterator(i, h)
      [] OTHER        -> HashStrIndex_initIterator(i, h)

Index_initIteratorKey(v, i, h, key) ==
    CASE v = "Hash32" -> Hash32Index_initIteratorKey(i, h, key)
      [] v = "Hash64" -> Hash64Index_initIteratorKey(i, h, key)
      [] OTHER        -> HashStrIndex_initIteratorKey(i, h, key)

----------------------------------------------------------------------------
(* Calls on the index and on the iterator *)

\* Variant of findByTuple that passes a missing field on to find.
HashIndex_findByTuple_noCheck(v, h, tuple) ==
    LET field == tuple_field(tuple, key_def.parts[1].fieldno)
    IN IF field = NULLFIELD /\ v # "HashStr"
       THEN [err |-> "SIGSEGV", val |-> NULL]
       ELSE Index_find(v, h, field)

HashIndex_findByTuple(v, h, tuple) ==
    LET field == tuple_field(tuple, key_def.parts[1].fieldno)
    IN IF field = NULLFIELD
       THEN [err |-> "ER_NO_SUCH_FIELD", val |-> NULL]
       ELSE Index_find(v, h, field)

\* The last call: its name, its outcome, the tuple it returned and, for a
\* replace, how old_tuple relates to new_tuple ("null", "same_key",
\* "other_key"; "none" for every other call).
Call(op, err, val, old) == [op |-> op, err |-> err, val |-> val, old |-> old]

OldIs(old_tuple, new_tuple) ==
    IF old_tuple = NULL THEN "null"
    ELSE IF tuple_field(old_tuple, key_def.parts[1].fieldno)
            = tuple_field(new_tuple, key_def.parts[1].fieldno)
         THEN "same_key" ELSE "other_key"

\* History of the iterator since its last initIterator. mode: "none" (never
\* initialised), "all" (unkeyed scan), "eq" (keyed, advanced through
\* next_equal only), "stale" (keyed and not advanced yet, and the index
\* changed since), "dirty" (the index changed under an iterator of another
\* mode, or a keyed iterator was advanced through next or when stale).
\* key: the key of a keyed iterator.
\* out: the results of the advances made in mode "all" or "eq". eq_calls:
\* calls of next_equal since the last initIterator (0, 1, or 2 for more).
NoTrace == [mode |-> "none", key |-> <<>>, out |-> <<>>, eq_calls |-> 0]

Dirty(t) ==
    IF t.mode = "none" THEN t
    ELSE [t EXCEPT !.mode = "dirty", !.key = <<>>, !.out = <<>>]

Stale(t) ==
    IF t.mode \in {"eq", "stale"} /\ t.eq_calls = 0
    THEN [t EXCEPT !.mode = "stale"]
    ELSE Dirty(t)

Mutate(t, h, h1) ==
    IF h1 = h THEN t ELSE IF watch THEN Stale(t) ELSE Dirty(t)

AdvanceNext(t, val) ==
    IF t.mode = "all" THEN [t EXCEPT !.out = Append(t.out, val)] ELSE Dirty(t)

AdvanceEqual(t, val) ==
    LET n == IF t.eq_calls = 0 THEN 1 ELSE 2
    IN IF t.mode = "eq"
       THEN [t EXCEPT !.out = Append(t.out, val), !.eq_calls = n]
       ELSE [Dirty(t) EXCEPT !.eq_calls = n]

\* Width of the key the variant reads with *(u32 *) or *(u64 *).
KeyWidth(v) == CASE v = "Hash32" -> 4 [] v = "Hash64" -> 8 [] OTHER -> 0

\* The key value of a tuple as the variant sees it: the number in the first 4
\* or 8 bytes of the key field, or the whole field for a string key.
KeyValue(v, tuple, pad) ==
    LET field == tuple_field(tuple, key_def.parts[1].fieldno)
    IN IF v = "HashStr" THEN field
       ELSE read_num(load_varint32(field).rest, KeyWidth(v), pad)

Removed(p, v, err, tuple, pad) ==
    IF err = "ok" /\ tuple # NULL THEN p \ {KeyValue(v, tuple, pad)} ELSE p

Inserted(p, v, err, tuple) ==
    IF err = "ok" THEN p \cup {KeyValue(v, tuple, <<>>)} ELSE p

Find(field) ==
    /\ ~fatal
    /\ \E r \in {Index_find(variant, hash, field)} :
          ret' = Call("find", r.err, r.val, "none")
    /\ UNCHANGED <<watch, kind, variant, hash, it, trace, present, fatal, dvars,
                   ovars>>

\* [index findByTuple: tuple].
FindByTuple(tuple) ==
    /\ ~fatal
    /\ variant \in Variants
    /\ \E r \in {HashIndex_findByTuple(variant, hash, tuple)} :
          ret' = Call("findByTuple", r.err, r.val, "none")
    /\ UNCHANGED <<watch, kind, variant, hash, it, trace, present, fatal, dvars,
                   ovars>>

\* [index min].
Min ==
    /\ ~fatal
    /\ variant \in Variants
    /\ \E r \in {HashIndex_min(hash)} : ret' = Call("min", r.err, r.val, "none")
    /\ UNCHANGED <<watch, kind, variant, hash, it, trace, present, fatal, dvars,
                   ovars>>

\* [index max].
Max ==
    /\ ~fatal
    /\ variant \in Variants
    /\ \E r \in {HashIndex_max(hash)} : ret' = Call("max", r.err, r.val, "none")
    /\ UNCHANGED <<watch, kind, variant, hash, it, trace, present, fatal, dvars,
                   ovars>>

\* [[Index alloc: type :key_def :space] init: key_def :space] on a process
\* that has no index yet. panic() ends the process; a TreeIndex is not
\* followed further.
Alloc(type, key_type) ==
    /\ ~fatal
    /\ variant = "none"
    /\ kind' = [type |-> type, key_type |-> key_type]
    /\ \E c \in {Index_alloc(type, key_type)} :
          /\ variant' = c
          /\ fatal' = (c = "panic")
          /\ ret' = Call("alloc", IF c = "panic" THEN "unsupported index type"
                                  ELSE "ok", NULL, "none")
    /\ hash' = mh_init
    /\ it' = HashIndex_allocIterator
    /\ UNCHANGED <<watch, trace, present, dvars, ovars>>

Remove(tuple) ==
    /\ ~fatal
    /\ \E r \in {Index_remove(variant, hash, tuple)} :
          /\ hash' = r.hash
          /\ fatal' = (r.err = "SIGSEGV")
          /\ trace' = Mutate(trace, hash, r.hash)
          /\ present' = Removed(present, variant, r.err, tuple, <<>>)
          /\ ret' = Call("remove", r.err, NULL, "none")
    /\ UNCHANGED <<watch, kind, variant, it, dvars, ovars>>

Replace(old_tuple, new_tuple, pad) ==
    /\ ~fatal
    /\ \E r \in {Index_replace(variant, hash, old_tuple, new_tuple, pad)} :
          /\ hash' = r.hash
          /\ fatal' = (r.err = "SIGSEGV")
          /\ trace' = Mutate(trace, hash, r.hash)
          /\ present' = Inserted(Removed(present, variant, r.err, old_tuple,
                                         pad), variant, r.err, new_tuple)
          /\ ret' = Call("replace", r.err, NULL, OldIs(old_tuple, new_tuple))
    /\ UNCHANGED <<watch, kind, variant, it, dvars, ovars>>

InitIterator ==
    /\ ~fatal
    /\ it' = Index_initIterator(variant, it, hash)
    /\ trace' = [NoTrace EXCEPT !.mode = "all"]
    /\ ret' = Call("initIterator", "ok", NULL, "none")
    /\ UNCHANGED <<watch, kind, variant, hash, present, fatal, dvars, ovars>>

\* assert(part_count == 1) aborts a debug build and is compiled out of a
\* release build (ndebug).
InitIteratorKey(key, part_count, ndebug) ==
    /\ ~fatal
    /\ IF part_count # 1 /\ ~ndebug
       THEN /\ fatal' = TRUE
            /\ ret' = Call("initIteratorKey", "abort", NULL, "none")
            /\ UNCHANGED <<it, trace>>
       ELSE \E r \in {Index_initIteratorKey(variant, it, hash, key)} :
               /\ it' = r.it
               /\ trace' = IF r.err = "ok"
                           THEN [NoTrace EXCEPT !.mode = "eq", !.key = key]
                           ELSE trace
               /\ ret' = Call("initIteratorKey", r.err, NULL, "none")
               /\ UNCHANGED fatal
    /\ UNCHANGED <<watch, kind, variant, hash, present, dvars, ovars>>

\* it->next(it). An iterator that was never initialised has hash = NULL, and
\* mh_end(it->hash) dereferences it.
IteratorNext ==
    /\ ~fatal
    /\ Len(trace.out) < MaxCalls
    /\ IF it.hash = "NULL"
       THEN /\ fatal' = TRUE
            /\ ret' = Call("next", "SIGSEGV", NULL, "none")
            /\ UNCHANGED <<it, trace>>
       ELSE \E r \in {hash_iterator_next(it, hash)} :
               /\ it' = r.it
               /\ trace' = AdvanceNext(trace, r.val)
               /\ ret' = Call("next", "ok", r.val, "none")
               /\ UNCHANGED fatal
    /\ UNCHANGED <<watch, kind, variant, hash, present, dvars, ovars>>

\* it->next_equal(it). After allocIterator or an unkeyed initIterator the
\* pointer is 0 and the call jumps to address 0.
IteratorNextEqual ==
    /\ ~fatal
    /\ Len(trace.out) < MaxCalls
    /\ IF it.next_equal = "NULL"
       THEN /\ fatal' = TRUE
            /\ ret' = Call("next_equal", "SIGSEGV", NULL, "none")
            /\ UNCHANGED <<it, trace>>
       ELSE \E r \in {IF it.next_equal = "iterator_first_equal"
                     THEN iterator_first_equal(it, hash)
                     ELSE iterator_next_equal(it, hash)} :
               /\ it' = r.it
               /\ trace' = AdvanceEqual(trace, r.val)
               /\ ret' = Call("next_equal", "ok", r.val, "none")
               /\ UNCHANGED fatal
    /\ UNCHANGED <<watch, kind, variant, hash, present, dvars, ovars>>

----------------------------------------------------------------------------
(* tuple_dictionary: the names of the fields and the hash from a name to   *)
(* its field number. dicts is the heap of dictionary wrappers, live counts *)
(* the allocations not yet freed, built remembers the name list each live  *)
(* dictionary was constructed from, dret is the last call and its result.  *)

\* Longest name list given to tuple_dictionary_new.
MaxNames == 3
\* Number of addresses a dictionary wrapper can be allocated at.
MaxDicts == 1
\* Cap on the reference count of a dictionary.
MaxRefs == MaxDicts + 1

\* Field names are C strings: sequences of non-zero bytes. <<1>> and <<3>>
\* have the same length and the same hash, <<1>> is a prefix of <<1, 1>>.
NamePool == {<<1>>, <<3>>, <<1, 1>>}
NameLists == UNION {[1..n -> NamePool] : n \in 0..MaxNames}
\* Names looked up: <<2>> is in no dictionary and has the hash of <<1, 1>>.
LookupNames == NamePool \cup {<<2>>}

strlen(name) == Len(name)

field_name_hash(name, name_len) == SumBytes(SubSeq(name, 1, name_len)) % 2

\* struct mh_strnu32_t: nodes {str, len, hash, val} found by (str, len, hash).
NULLHASH == [null |-> TRUE, nodes |-> {}]
mh_strnu32_new == [null |-> FALSE, nodes |-> {}]

mh_strnu32_key(name, name_len, name_hash) ==
    [str |-> SubSeq(name, 1, name_len), len |-> name_len, hash |-> name_hash]

\* The nodes matching the key; the empty set stands for mh_end.
mh_strnu32_find(h, key) ==
    {n \in h.nodes : n.len = key.len /\ n.hash = key.hash /\ n.str = key.str}

mh_strnu32_put(h, node) ==
    [h EXCEPT !.nodes =
        (@ \ mh_strnu32_find(h, [str |-> node.str, len |-> node.len,
                                 hash |-> node.hash])) \cup {node}]

\* struct tuple_dictionary, and the content of a freed wrapper.
NULLNAMES == [null |-> TRUE, strs |-> <<>>]
FreeDict ==
    [used |-> FALSE, refs |-> 0, name_count |-> 0, names |-> NULLNAMES,
     hash |-> NULLHASH]
NoAllocs == [dict |-> 0, names |-> 0, hash |-> 0]
NoError == "none"

\* asserted tells whether the two assertions of tuple_dictionary_delete hold:
\* the count is 0, and a dictionary without hash has no names buffer.
tuple_dictionary_delete(heap, lv, a) ==
    [asserted |-> /\ heap[a].refs = 0
                  /\ heap[a].hash.null => heap[a].names.null,
     dicts |-> [heap EXCEPT ![a] = FreeDict],
     live |-> IF ~heap[a].hash.null
              THEN [dict |-> lv.dict - 1, names |-> lv.names - 1,
                    hash |-> lv.hash - 1]
              ELSE [lv EXCEPT !.dict = @ - 1]]

\* Variant of tuple_dictionary_set_name that does not look the name up first.
tuple_dictionary_set_name_noCheck(dict, name, name_len, fieldno) ==
    LET name_hash == field_name_hash(name, name_len)
    IN [rc |-> 0, err |-> NoError,
        dict |-> [dict EXCEPT !.hash =
                     mh_strnu32_put(@, [str |-> SubSeq(name, 1, name_len),
                                        len |-> name_len, hash |-> name_hash,
                                        val |-> fieldno])]]

tuple_dictionary_set_name(dict, name, name_len, fieldno) ==
    LET name_hash == field_name_hash(name, name_len)
        key == mh_strnu32_key(name, name_len, name_hash)
        rc == mh_strnu32_find(dict.hash, key)
    IN IF rc # {}
       THEN [rc |-> -1, err |-> "ER_SPACE_FIELD_IS_DUPLICATE", dict |-> dict]
       ELSE [rc |-> 0, err |-> NoError,
             dict |-> [dict EXCEPT !.hash =
                          mh_strnu32_put(@, [str |-> key.str, len |-> name_len,
                                             hash |-> name_hash,
                                             val |-> fieldno])]]

\* The second loop of tuple_dictionary_new_impl, from field i on. The result
\* is the address of the dictionary, or 0 for NULL.
RECURSIVE tuple_dictionary_new_loop(_, _, _, _, _)
tuple_dictionary_new_loop(heap, lv, a, name_data, i) ==
    IF i = heap[a].name_count
    THEN [rc |-> a, err |-> NoError, dicts |-> heap, live |-> lv]
    ELSE LET name == name_data[i + 1]
             len == strlen(name)
             dict == [heap[a] EXCEPT !.names.strs = Append(@, name)]
             r == tuple_dictionary_set_name(dict, dict.names.strs[i + 1],
                                            len, i)
         IN IF r.rc # 0
            THEN [rc |-> 0, err |-> r.err,
                  dicts |-> [heap EXCEPT ![a] = FreeDict],
                  live |-> [dict |-> lv.dict - 1, names |-> lv.names - 1,
                            hash |-> lv.hash - 1]]
            ELSE tuple_dictionary_new_loop([heap EXCEPT ![a] = r.dict], lv, a,
                                           name_data, i + 1)

tuple_dictionary_new_impl(heap, lv, a, name_data, name_count) ==
    LET dict == [used |-> TRUE, refs |-> 1, name_count |-> name_count,
                 names |-> NULLNAMES, hash |-> NULLHASH]
        lv1 == [lv EXCEPT !.dict = @ + 1]
    IN IF name_count = 0
       THEN [rc |-> a, err |-> NoError, dicts |-> [heap EXCEPT ![a] = dict],
             live |-> lv1]
       ELSE tuple_dictionary_new_loop(
                [heap EXCEPT ![a] =
                    [dict EXCEPT !.names = [null |-> FALSE, strs |-> <<>>],
                                 !.hash = mh_strnu32_new]],
                [lv1 EXCEPT !.names = @ + 1, !.hash = @ + 1],
                a, name_data, 0)

\* fields is the array of field_def, each reduced to its name.
tuple_dictionary_new(heap, lv, a, fields, field_count) ==
    tuple_dictionary_new_impl(heap, lv, a, fields, field_count)

\* Variant of tuple_dictionary_dup that copies the wrapper, count included.
tuple_dictionary_dup_copiesCount(heap, lv, a, dict) ==
    LET r == tuple_dictionary_new_impl(heap, lv, a, dict.names.strs,
                                       dict.name_count)
    IN [r EXCEPT !.dicts[a].refs = dict.refs]

\* tuple_dictionary_dup: a is the address xmalloc returns for the copy.
tuple_dictionary_dup(heap, lv, a, dict) ==
    tuple_dictionary_new_impl(heap, lv, a, dict.names.strs, dict.name_count)

\* strcmp on C strings: the difference of the first bytes that differ, the
\* byte after the end of a string being 0; only its sign is specified.
RECURSIVE strcmp(_, _)
strcmp(s1, s2) ==
    LET c1 == IF s1 = <<>> THEN 0 ELSE Head(s1)
        c2 == IF s2 = <<>> THEN 0 ELSE Head(s2)
    IN IF c1 # c2 THEN c1 - c2
       ELSE IF c1 = 0 THEN 0
       ELSE strcmp(Tail(s1), Tail(s2))

\* The loop of tuple_dictionary_cmp from position i on.
RECURSIVE tuple_dictionary_cmp_loop(_, _, _)
tuple_dictionary_cmp_loop(a, b, i) ==
    IF i >= a.name_count THEN 0
    ELSE LET ret_ == strcmp(a.names.strs[i + 1], b.names.strs[i + 1])
         IN IF ret_ # 0 THEN ret_ ELSE tuple_dictionary_cmp_loop(a, b, i + 1)

\* Variant of tuple_dictionary_cmp that compares the first names only.
tuple_dictionary_cmp_firstOnly(a, b) ==
    IF a.name_count # b.name_count
    THEN (IF a.name_count > b.name_count THEN 1 ELSE -1)
    ELSE IF a.name_count = 0 THEN 0
    ELSE strcmp(a.names.strs[1], b.names.strs[1])

tuple_dictionary_cmp(a, b) ==
    IF a.name_count # b.name_count
    THEN (IF a.name_count > b.name_count THEN 1 ELSE -1)
    ELSE tuple_dictionary_cmp_loop(a, b, 0)

\* Variant of tuple_dictionary_swap that exchanges the whole wrappers.
tuple_dictionary_swap_withRefs(heap, a, b) ==
    [heap EXCEPT ![a] = heap[b], ![b] = heap[a]]

\* Variant of tuple_dictionary_swap that leaves each hash where it is.
tuple_dictionary_swap_keepsHash(heap, a, b) ==
    [heap EXCEPT ![a] = [heap[b] EXCEPT !.refs = heap[a].refs,
                                        !.hash = heap[a].hash],
                 ![b] = [heap[a] EXCEPT !.refs = heap[b].refs,
                                        !.hash = heap[b].hash]]

tuple_dictionary_swap(heap, a, b) ==
    LET a_refs == heap[a].refs
        b_refs == heap[b].refs
        t == heap[a]
        heap1 == [heap EXCEPT ![a] = heap[b]]
        heap2 == [heap1 EXCEPT ![b] = t]
        heap3 == [heap2 EXCEPT ![a].refs = a_refs]
    IN [heap3 EXCEPT ![b].refs = b_refs]

\* Variant of tuple_dictionary_unref that releases the dictionary while one
\* reference is left.
tuple_dictionary_unref_early(heap, lv, a, ndebug) ==
    LET refs == heap[a].refs - 1
        heap1 == [heap EXCEPT ![a].refs = 0]
        d == tuple_dictionary_delete(heap1, lv, a)
    IN IF heap[a].refs <= 0 /\ ~ndebug
       THEN [err |-> "abort", dicts |-> heap, live |-> lv]
       ELSE IF refs = 1 \/ refs = 0
       THEN [err |-> NoError, dicts |-> d.dicts, live |-> d.live]
       ELSE [err |-> NoError,
             dicts |-> IF heap[a].used THEN [heap EXCEPT ![a].refs = refs]
                       ELSE heap,
             live |-> lv]

\* assert(dict->refs > 0) aborts a build with assertions and is compiled out
\* with NDEBUG (ndebug), where the count is decremented whatever it is; so
\* are the assertions of tuple_dictionary_delete. The
\* decrement of a released wrapper lands in memory the heap does not hold
\* any more: the wrapper stays FreeDict.
tuple_dictionary_unref(heap, lv, a, ndebug) ==
    LET refs == heap[a].refs - 1
        heap1 == [heap EXCEPT ![a].refs = refs]
        d == tuple_dictionary_delete(heap1, lv, a)
    IN IF heap[a].refs <= 0 /\ ~ndebug
       THEN [err |-> "abort", dicts |-> heap, live |-> lv]
       ELSE IF refs = 0
       THEN IF ~d.asserted /\ ~ndebug
            THEN [err |-> "abort", dicts |-> heap1, live |-> lv]
            ELSE [err |-> NoError, dicts |-> d.dicts, live |-> d.live]
       ELSE [err |-> NoError,
             dicts |-> IF heap[a].used THEN heap1 ELSE heap, live |-> lv]

tuple_dictionary_ref(heap, a) == [heap EXCEPT ![a].refs = @ + 1]

\* Variant of tuple_fieldno_by_name that zeroes the output cell on a miss.
tuple_fieldno_by_name_clears(dict, name, name_len, name_hash, fieldno) ==
    LET rc == IF dict.hash.null THEN {}
              ELSE mh_strnu32_find(dict.hash,
                                   mh_strnu32_key(name, name_len, name_hash))
    IN IF rc = {}
       THEN [rc |-> -1, fieldno |-> <<0>>]
       ELSE [rc |-> 0, fieldno |-> <<(CHOOSE n \in rc : TRUE).val>>]

\* fieldno is the caller's output cell: <<>> while never written.
tuple_fieldno_by_name(dict, name, name_len, name_hash, fieldno) ==
    LET hash_ == dict.hash
    IN IF hash_.null
       THEN [rc |-> -1, fieldno |-> fieldno]
       ELSE LET key == mh_strnu32_key(name, name_len, name_hash)
                rc == mh_strnu32_find(hash_, key)
            IN IF rc = {}
               THEN [rc |-> -1, fieldno |-> fieldno]
               ELSE [rc |-> 0, fieldno |-> <<(CHOOSE n \in rc : TRUE).val>>]

DictCall(op, rc, err, fieldno) ==
    [op |-> op, rc |-> rc, err |-> err, fieldno |-> fieldno]

DictNew(a, fields) ==
    /\ ~fatal
    /\ ~dicts[a].used
    /\ \E r \in {tuple_dictionary_new(dicts, live, a, fields, Len(fields))} :
          /\ dicts' = r.dicts
          /\ live' = r.live
          /\ built' = [built EXCEPT ![a] = IF r.rc # 0 THEN fields ELSE <<>>]
          /\ dret' = DictCall("new", r.rc, r.err, dret.fieldno)
    /\ UNCHANGED <<ixvars, ovars>>

DictRef(a) ==
    /\ ~fatal
    /\ dicts[a].used
    /\ dicts[a].refs < MaxRefs
    /\ dicts' = tuple_dictionary_ref(dicts, a)
    /\ dret' = DictCall("ref", 0, NoError, dret.fieldno)
    /\ UNCHANGED <<live, built, ixvars, ovars>>

\* tuple_dictionary_unref(dict) through a pointer to a live dictionary, or
\* through a pointer kept after the dictionary was released, where the count
\* still reads 0.
DictUnref(a, ndebug) ==
    /\ ~fatal
    /\ dicts[a].used \/ dicts[a] = FreeDict
    /\ \E r \in {tuple_dictionary_unref(dicts, live, a, ndebug)} :
          /\ dicts' = r.dicts
          /\ live' = r.live
          /\ built' = IF r.dicts[a].used THEN built
                      ELSE [built EXCEPT ![a] = <<>>]
          /\ fatal' = (r.err = "abort")
          /\ dret' = DictCall("unref", 0, r.err, dret.fieldno)
    /\ UNCHANGED <<watch, kind, variant, hash, it, ret, trace, present, ovars>>

\* tuple_dictionary_dup(dict) of the dictionary at src; the copy is allocated
\* at dst.
DictDup(src, dst) ==
    /\ ~fatal
    /\ dicts[src].used
    /\ ~dicts[dst].used
    /\ \E r \in {tuple_dictionary_dup(dicts, live, dst, dicts[src])} :
          /\ dicts' = r.dicts
          /\ live' = r.live
          /\ built' = [built EXCEPT ![dst] = IF r.rc # 0 THEN built[src]
                                              ELSE <<>>]
          /\ dret' = DictCall("dup", r.rc, r.err, dret.fieldno)
    /\ UNCHANGED <<ixvars, ovars>>

\* tuple_dictionary_swap(a, b).
DictSwap(a, b) ==
    /\ ~fatal
    /\ dicts[a].used
    /\ dicts[b].used
    /\ dicts' = tuple_dictionary_swap(dicts, a, b)
    /\ built' = [built EXCEPT ![a] = built[b], ![b] = built[a]]
    /\ dret' = DictCall("swap", 0, NoError, dret.fieldno)
    /\ UNCHANGED <<live, ixvars, ovars>>

\* tuple_dictionary_cmp(a, b).
DictCmp(a, b) ==
    /\ ~fatal
    /\ dicts[a].used
    /\ dicts[b].used
    /\ dret' = DictCall("cmp", tuple_dictionary_cmp(dicts[a], dicts[b]),
                        NoError, dret.fieldno)
    /\ UNCHANGED <<dicts, live, built, ixvars, ovars>>

DictFieldnoByName(a, name, name_len, name_hash) ==
    /\ ~fatal
    /\ dicts[a].used
    /\ name_len <= strlen(name)
    /\ \E r \in {tuple_fieldno_by_name(dicts[a], name, name_len, name_hash,
                                      dret.fieldno)} :
          dret' = DictCall("fieldno_by_name", r.rc, NoError, r.fieldno)
    /\ UNCHANGED <<dicts, live, built, ixvars, ovars>>

----------------------------------------------------------------------------
(* build_indexes: the bulk build of the secondary keys at startup *)

\* Number of entries of the space array.
BOX_SPACE_MAX == 2

\* Number of index slots of a space.
BOX_INDEX_MAX == 4

\* An empty index slot.
nil == [id |-> <<>>, type |-> "nil", built_from |-> <<>>]

\* The index object in slot idx of space n, as the configuration leaves it:
\* allocated, initialised and not built.
NewIndex(n, idx, type) ==
    [id |-> <<n, idx>>, type |-> type, built_from |-> <<>>]

\* The index lists a space can own: index 0 is the primary key, the
\* secondary keys follow in declaration order, and the list ends before the
\* last slot, so that at least one empty slot follows it. build_indexes
\* never reads the type of a primary key; it is TREE here, the type a loop
\* that started at position 0 would build.
IndexLists ==
    {list \in UNION {[1..len -> {"HASH", "TREE"}] :
                        len \in 0..(BOX_INDEX_MAX - 1)} :
        list # <<>> => list[1] = "TREE"}

\* struct space: the enabled flag and the slot array holding an index list.
Space(n, enabled, list) ==
    [enabled |-> enabled,
     index |-> [idx \in 0..(BOX_INDEX_MAX - 1) |->
                   IF idx < Len(list) THEN NewIndex(n, idx, list[idx + 1])
                   ELSE nil]]

\* [TreeIndex build: pk]: fills the index from the records of pk.
TreeIndex_build(index, pk) == [index EXCEPT !.built_from = pk.id]

\* Head of the outer loop body: what build_indexes does with space n.
build_indexes_space(sp, n) ==
    IF sp[n].enabled = FALSE THEN "continue"
    ELSE IF sp[n].index[1] = nil THEN "continue"
    ELSE "build"

build_indexes_slot_anyType(sp, n, idx) ==
    LET index == sp[n].index[idx]
    IN IF index = nil THEN "break" ELSE "build"

\* Body of the inner loop: what build_indexes does with slot idx of space n.
build_indexes_slot(sp, n, idx) ==
    LET index == sp[n].index[idx]
    IN IF index = nil THEN "break"
       ELSE IF index.type # "TREE" THEN "continue"
       ELSE "build"

\* Position of build_indexes in its loops.
BuildPos(pc, n, idx) == [pc |-> pc, n |-> n, idx |-> idx]

\* One [TreeIndex build:] call: the index built and the pk it was given.
BuildCall(index, pk) == [index |-> index.id, pk |-> pk.id]

\* One iteration of the outer loop, up to the entry of the inner loop.
BuildSpace ==
    /\ ~fatal
    /\ bpos.pc = "space"
    /\ bpos.n < BOX_SPACE_MAX
    /\ bpos' = IF build_indexes_space(space, bpos.n) = "continue"
               THEN BuildPos("space", bpos.n + 1, 0)
               ELSE BuildPos("slot", bpos.n, 1)
    /\ UNCHANGED <<space, blog, ixvars, dvars, cvars>>

\* One iteration of the inner loop. A build that meets two records with the
\* same key in a unique index ends the process.
BuildSlot(collide) ==
    /\ ~fatal
    /\ bpos.pc = "slot"
    /\ \E op \in {build_indexes_slot(space, bpos.n, bpos.idx)} :
          LET n == bpos.n
              idx == bpos.idx
              pk == space[n].index[0]
              index == space[n].index[idx]
          IN IF op = "break"
             THEN /\ bpos' = BuildPos("space", n + 1, 0)
                  /\ UNCHANGED <<space, blog, fatal>>
             ELSE IF op = "continue"
             THEN /\ bpos' = BuildPos("slot", n, idx + 1)
                  /\ UNCHANGED <<space, blog, fatal>>
             ELSE IF collide
             THEN /\ fatal' = TRUE
                  /\ blog' = Append(blog, BuildCall(index, pk))
                  /\ UNCHANGED <<space, bpos>>
             ELSE /\ space' = [space EXCEPT
                                  ![n].index[idx] = TreeIndex_build(index, pk)]
                  /\ blog' = Append(blog, BuildCall(index, pk))
                  /\ bpos' = BuildPos("slot", n, idx + 1)
                  /\ UNCHANGED fatal
    /\ UNCHANGED <<watch, kind, variant, hash, it, ret, trace, present, dvars,
                   cvars>>

\* The outer loop ends and build_indexes returns.
BuildReturn ==
    /\ ~fatal
    /\ bpos.pc = "space"
    /\ bpos.n = BOX_SPACE_MAX
    /\ bpos' = BuildPos("done", bpos.n, 0)
    /\ UNCHANGED <<space, blog, ixvars, dvars, cvars>>

\* No space is configured and build_indexes is not running.
BuildIdle ==
    /\ space = <<>>
    /\ bpos = BuildPos("idle", 0, 0)
    /\ blog = <<>>

----------------------------------------------------------------------------
(* cluster_add_server: registration of a server of the cluster *)

\* Largest server id a call carries.
MaxServerId == 2

\* Largest number of calls that carry the local UUID.
MaxLocalCalls == 2

\* tt_uuid values: the nil UUID and two others.
Uuids == {"nil", "A", "B"}
ServerIds == 0..MaxServerId

tt_uuid_is_nil(uuid) == uuid = "nil"
tt_uuid_is_equal(a, b) == a = b

\* Server id 0 stands for "no id" and is never given to a server.
cserver_id_is_reserved(id) == id = 0

\* The vector clock gets a component for server_id.
vclock_add_server(vclock, server_id) == vclock \cup {server_id}

cluster_add_server_always(r, server_uuid, server_id, ndebug) ==
    LET r1 == [r EXCEPT !.vclock = vclock_add_server(r.vclock, server_id)]
    IN IF ~ndebug /\ tt_uuid_is_nil(server_uuid)
       THEN [err |-> "abort", r |-> r]
       ELSE IF ~ndebug /\ cserver_id_is_reserved(server_id)
       THEN [err |-> "abort", r |-> r]
       ELSE IF ~ndebug /\ r.server_id # 0
       THEN [err |-> "abort", r |-> r1]
       ELSE [err |-> NoError, r |-> [r1 EXCEPT !.server_id = server_id]]

\* cluster_add_server on recovery state r; ndebug tells whether the build
\* compiles the assertions out.
cluster_add_server(r, server_uuid, server_id, ndebug) ==
    LET r1 == [r EXCEPT !.vclock = vclock_add_server(r.vclock, server_id)]
    IN IF ~ndebug /\ tt_uuid_is_nil(server_uuid)
       THEN [err |-> "abort", r |-> r]
       ELSE IF ~ndebug /\ cserver_id_is_reserved(server_id)
       THEN [err |-> "abort", r |-> r]
       ELSE IF tt_uuid_is_equal(r.server_uuid, server_uuid)
       THEN IF ~ndebug /\ r.server_id # 0
            THEN [err |-> "abort", r |-> r1]
            ELSE [err |-> NoError, r |-> [r1 EXCEPT !.server_id = server_id]]
       ELSE [err |-> NoError, r |-> r1]

\* cluster_clock: the vector clock of the recovery.
cluster_clock(r) == r.vclock

\* A call of cluster_add_server.
ClusterAddServer(server_uuid, server_id, ndebug) ==
    /\ ~fatal
    /\ tt_uuid_is_equal(recovery_state.server_uuid, server_uuid)
          => Len(called) < MaxLocalCalls
    /\ \E res \in {cluster_add_server(recovery_state, server_uuid, server_id,
                                      ndebug)} :
          /\ recovery_state' = res.r
          /\ fatal' = (res.err = "abort")
    /\ called' = IF tt_uuid_is_equal(recovery_state.server_uuid, server_uuid)
                 THEN Append(called, server_id)
                 ELSE called
    /\ UNCHANGED <<watch, kind, variant, hash, it, ret, trace, present, dvars,
                   bvars>>

\* The recovery of a server that knows its UUID and has no id yet. The
\* vector clock is empty.
RecoveryStates ==
    {[server_uuid |-> u, server_id |-> 0, vclock |-> {}] :
        u \in Uuids \ {"nil"}}

\* No cluster_add_server call is made.
ClusterIdle ==
    /\ recovery_state = [server_uuid |-> "A", server_id |-> 0, vclock |-> {}]
    /\ called = <<>>

OtherInit == BuildIdle /\ ClusterIdle

----------------------------------------------------------------------------
(* Specifications of one hash index and one iterator over it *)

NoCall == Call("none", "ok", NULL, "none")

\* A hash index as Index alloc and init leave it.
IndexInit ==
    /\ kind \in {[type |-> "HASH", key_type |-> k] :
                    k \in {"NUM", "NUM64", "STRING"}}
    /\ variant = Index_alloc(kind.type, kind.key_type)
    /\ hash = mh_init
    /\ it = HashIndex_allocIterator
    /\ ret = NoCall
    /\ trace = NoTrace
    /\ present = {}
    /\ fatal = FALSE

DictInit ==
    /\ dicts = [a \in 1..MaxDicts |-> FreeDict]
    /\ live = NoAllocs
    /\ built = [a \in 1..MaxDicts |-> <<>>]
    /\ dret = DictCall("none", 0, NoError, <<>>)

Init == IndexInit /\ DictInit /\ OtherInit /\ watch = FALSE

\* The same, with the key of a keyed iterator kept in the history.
IterInit == IndexInit /\ DictInit /\ OtherInit /\ watch = TRUE

\* The bytes after the key field of the old tuple of a replace, when the
\* variant reads past its end.
OldTails(v, old_tuple) ==
    TailBytes(tuple_field(old_tuple, key_def.parts[1].fieldno), KeyWidth(v))

\* Every call on the index itself, with well-formed and ill-formed arguments.
Next ==
    \/ \E f \in Fields(variant) : Find(f)
    \/ \E t \in Tuples(variant) : Remove(t)
    \/ \E o \in Tuples(variant) \cup {NULL}, n \in Tuples(variant) :
          \E pad \in OldTails(variant, o) : Replace(o, n, pad)
    \/ \E f \in Fields(variant), pc \in {1, 2}, nd \in BOOLEAN :
          InitIteratorKey(f, pc, nd)

Spec == Init /\ [][Next]_vars

\* A caller that scans the index with an iterator while well-formed tuples
\* are inserted, replaced and removed.
IterNext ==
    \/ \E t \in ValidTuples(variant) : Remove(t)
    \/ \E o \in ValidTuples(variant) \cup {NULL}, n \in ValidTuples(variant) :
          Replace(o, n, <<>>)
    \/ InitIterator
    \/ \E f \in ValidFields(variant) : InitIteratorKey(f, 1, TRUE)
    \/ IteratorNext
    \/ IteratorNextEqual

IterSpec == IterInit /\ [][IterNext]_vars

\* Calls on the tuple dictionaries; the index is not involved.
DictNext ==
    \/ \E a \in 1..MaxDicts, fields \in NameLists : DictNew(a, fields)
    \/ \E a \in 1..MaxDicts : DictRef(a)
    \/ \E a \in 1..MaxDicts, ndebug \in BOOLEAN : DictUnref(a, ndebug)
    \/ \E a \in 1..MaxDicts, name \in LookupNames, name_len \in 0..2,
          name_hash \in 0..1 : DictFieldnoByName(a, name, name_len, name_hash)

\* The dictionaries do not depend on the class of the index.
DictOnlyInit == Init /\ variant = "HashStr"

DictSpec == DictOnlyInit /\ [][DictNext]_vars

\* Number of key values of the tuples stored in the index whose entries are
\* compared before and after a call: the key of the old tuple, the key of the
\* new tuple and a key the call does not name.
MaxQueryKey == 3

QueryKeyValues == {2 * k - 1 : k \in 1..MaxQueryKey}

QueryFields(v) ==
    CASE v = "Hash32" -> {U32Field(k) : k \in QueryKeyValues}
      [] v = "Hash64" -> {U64Field(k) : k \in QueryKeyValues}
      [] OTHER        -> {StrField(k) : k \in QueryKeyValues}

QueryTuples(v) ==
    {[id |-> i, fields |-> <<f>>] : i \in TupleIds, f \in QueryFields(v)}

\* The tuples the caller of QuerySpec stores; the properties are stated for
\* every tuple of QueryTuples on the tables these calls leave.
QueryStored(v) == {t \in QueryTuples(v) : t.id = 1}

\* Two addresses for dictionary wrappers: the a and b of cmp and swap, a
\* dictionary and its copy.
PairAddrs == {1, 2}

PairInit ==
    /\ IndexInit
    /\ variant = "HashStr"
    /\ watch = FALSE
    /\ dicts = [a \in PairAddrs |-> FreeDict]
    /\ live = NoAllocs
    /\ built = [a \in PairAddrs |-> <<>>]
    /\ dret = DictCall("none", 0, NoError, <<>>)
    /\ OtherInit

\* Calls on two dictionaries.
PairNext ==
    \/ \E a \in PairAddrs, fields \in NameLists : DictNew(a, fields)
    \/ \E src \in PairAddrs, dst \in PairAddrs : DictDup(src, dst)
    \/ \E a \in PairAddrs : DictRef(a)
    \/ \E a \in PairAddrs, ndebug \in BOOLEAN : DictUnref(a, ndebug)
    \/ \E a \in PairAddrs, b \in PairAddrs : DictSwap(a, b)
    \/ \E a \in PairAddrs, b \in PairAddrs : DictCmp(a, b)

PairSpec == PairInit /\ [][PairNext]_vars

\* A process before its index is constructed.
NoIndexInit ==
    /\ kind = [type |-> "none", key_type |-> "none"]
    /\ variant = "none"
    /\ hash = mh_init
    /\ it = HashIndex_allocIterator
    /\ ret = NoCall
    /\ trace = NoTrace
    /\ present = {}
    /\ fatal = FALSE
    /\ watch = FALSE
    /\ DictInit

QueryInit == NoIndexInit /\ OtherInit

\* Construction of the index, then the calls that read it (findByTuple, min,
\* max) among replace and remove calls.
QueryNext ==
    \/ \E type \in IndexTypes, key_type \in FieldTypes : Alloc(type, key_type)
    \/ \E t \in QueryTuples(variant) \cup Tuples(variant) : FindByTuple(t)
    \/ Min
    \/ Max
    \/ \E t \in QueryStored(variant) : variant \in Variants /\ Remove(t)
    \/ \E o \in QueryStored(variant) \cup {NULL}, n \in QueryStored(variant) :
          variant \in Variants /\ Replace(o, n, <<>>)

QuerySpec == QueryInit /\ [][QueryNext]_vars

\* The startup of a process whose spaces are configured and loaded:
\* build_indexes is entered with its outer loop at space 0. An enabled space
\* has a primary key.
BuildInit ==
    /\ NoIndexInit
    /\ ClusterIdle
    /\ \E enabled \in [0..(BOX_SPACE_MAX - 1) -> BOOLEAN],
          list \in [0..(BOX_SPACE_MAX - 1) -> IndexLists] :
          /\ \A n \in 0..(BOX_SPACE_MAX - 1) : enabled[n] => list[n] # <<>>
          /\ space = [n \in 0..(BOX_SPACE_MAX - 1) |->
                         Space(n, enabled[n], list[n])]
    /\ bpos = BuildPos("space", 0, 0)
    /\ blog = <<>>

BuildNext ==
    \/ BuildSpace
    \/ \E collide \in BOOLEAN : BuildSlot(collide)
    \/ BuildReturn

BuildSpec == BuildInit /\ [][BuildNext]_vars

\* The servers of a cluster are registered one call at a time.
ClusterInit ==
    /\ NoIndexInit
    /\ BuildIdle
    /\ recovery_state \in RecoveryStates
    /\ called = <<>>

ClusterNext ==
    \E server_uuid \in Uuids, server_id \in ServerIds, ndebug \in BOOLEAN :
        ClusterAddServer(server_uuid, server_id, ndebug)

ClusterSpec == ClusterInit /\ [][ClusterNext]_vars

----------------------------------------------------------------------------
(* Observations used by the properties *)

ExistSlots(h) == {i \in 0..(h.n_buckets - 1) : mh_exist(h, i)}
SlotKeys(h) == {h.slots[i].key : i \in ExistSlots(h)}
Tombstones(h) == {i \in 0..(h.n_buckets - 1) : h.slots[i].st = "deleted"}

KeyField(tuple) == tuple_field(tuple, key_def.parts[1].fieldno)
FindVal(h, field) == Index_find(variant, h, field).val
Records(h) == {FindVal(h, f) : f \in ValidFields(variant)} \ {NULL}

----------------------------------------------------------------------------
(* C1. After any sequence of replace and remove calls on a hash index,     *)
(* size() is the number of distinct key values inserted by a replace and   *)
(* not deleted since (by a remove or by the old-record deletion of a later *)
(* replace); these are exactly the keys that have an entry, and no key     *)
(* has two entries.                                                        *)
C1_SizeCountsLiveKeys ==
    /\ Index_size(variant, hash) = Cardinality(present)
    /\ SlotKeys(hash) = present
    /\ \A i, j \in ExistSlots(hash) :
          hash.slots[i].key = hash.slots[j].key => i = j

\* A replace has deleted the entry of its old record and left one key.
C1_Witness ==
    /\ ret.op = "replace" /\ ret.err = "ok" /\ ret.old = "other_key"
    /\ Tombstones(hash) # {}
    /\ Index_size(variant, hash) = 1

(* C2. From every index state and for every record r with key k:           *)
(* replace(NULL, r), when it succeeds, leaves find(k) returning r; and     *)
(* remove(r), when it succeeds, leaves find(k) returning NULL.             *)
C2_FindAfterReplaceAndRemove ==
    \A r \in Tuples(variant) :
        /\ LET res == Index_replace(variant, hash, NULL, r, <<>>)
           IN res.err = "ok" =>
                 Index_find(variant, res.hash, KeyField(r))
                    = [err |-> "ok", val |-> r]
        /\ LET res == Index_remove(variant, hash, r)
           IN res.err = "ok" =>
                 Index_find(variant, res.hash, KeyField(r))
                    = [err |-> "ok", val |-> NULL]

\* A record was inserted and the last call removed it.
C2_Witness ==
    /\ ret.op = "remove" /\ ret.err = "ok"
    /\ Tombstones(hash) # {}
    /\ Index_size(variant, hash) = 0

\* replace(old, new) with old non-null and the same key field, applied to
\* index h: the size before, the size after and what find then returns.
SameKeyReplaces(P(_, _, _, _)) ==
    \A o \in Tuples(variant), n \in Tuples(variant) :
        (KeyField(o) = KeyField(n)) =>
            \A pad \in OldTails(variant, o) :
                LET res == Index_replace(variant, hash, o, n, pad)
                IN res.err = "ok" => P(o, n, hash, res.hash)

(* C3, as claimed. replace(old, new) with old non-null and key(old) =      *)
(* key(new) leaves size() unchanged and makes find(key) return new, from   *)
(* every index state.                                                      *)
C3_Original ==
    LET P(o, n, h, h1) ==
            /\ Index_size(variant, h1) = Index_size(variant, h)
            /\ FindVal(h1, KeyField(n)) = n
    IN SameKeyReplaces(P)

(* C3, amended. replace(old, new) with old non-null and key(old) =         *)
(* key(new) makes find(key) return new; it leaves size() unchanged when    *)
(* the key has an entry before the call, and adds one to size() when it    *)
(* has none.                                                               *)
C3_SameKeyReplace ==
    LET P(o, n, h, h1) ==
            /\ Index_size(variant, h1) =
                  IF FindVal(h, KeyField(o)) # NULL
                  THEN Index_size(variant, h)
                  ELSE Index_size(variant, h) + 1
            /\ FindVal(h1, KeyField(n)) = n
    IN SameKeyReplaces(P)

\* A replace of a record by one with the same key has succeeded.
C3_Witness ==
    /\ ret.op = "replace" /\ ret.err = "ok" /\ ret.old = "same_key"
    /\ Index_size(variant, hash) >= 1

(* C7. remove(t) is accepted for every well-formed t; when key(t) has no   *)
(* entry it changes neither size() nor the result of find for any key;     *)
(* and removing t a second time changes nothing more.                      *)
C7_RemoveAbsentIsNoOp ==
    \A t \in Tuples(variant) :
        LET res == Index_remove(variant, hash, t)
        IN /\ t \in ValidTuples(variant) => res.err = "ok"
           /\ (res.err = "ok" /\ FindVal(hash, KeyField(t)) = NULL) =>
                 /\ Index_size(variant, res.hash) = Index_size(variant, hash)
                 /\ \A f \in Fields(variant) :
                       Index_find(variant, res.hash, f)
                          = Index_find(variant, hash, f)
           /\ res.err = "ok" =>
                 Index_remove(variant, res.hash, t)
                    = [err |-> "ok", hash |-> res.hash]

\* remove was called on an index that never held a record.
C7_Witness == ret.op = "remove" /\ ret.err = "ok" /\ hash = mh_init

\* On the integer variants, every call given a key field whose length prefix
\* is not the width of the key fails with IllegalParams and returns the index
\* and the iterator it was given.
C8_WrongSizeFails ==
    variant \in {"Hash32", "Hash64"} =>
        \A t \in Tuples(variant) :
            LET f == KeyField(t)
            IN (f # NULLFIELD /\ load_varint32(f).val # KeyWidth(variant)) =>
                  /\ Index_find(variant, hash, f).err = "IllegalParams"
                  /\ Index_remove(variant, hash, t)
                        = [err |-> "IllegalParams", hash |-> hash]
                  /\ \A o \in Tuples(variant) \cup {NULL} :
                        \A pad \in OldTails(variant, o) :
                            Index_replace(variant, hash, o, t, pad)
                               = [err |-> "IllegalParams", hash |-> hash]
                  /\ Index_initIteratorKey(variant, it, hash, f)
                        = [err |-> "IllegalParams", it |-> it]

\* A call that fails with IllegalParams changes nothing.
C8_FailedCallKeepsState ==
    ret'.err = "IllegalParams" =>
        /\ hash' = hash
        /\ it' = it
        /\ present' = present
        /\ fatal' = fatal

(* C8. On Hash32 (Hash64), find, remove, replace and keyed initIterator    *)
(* given a key field whose length prefix is not 4 (8) fail with the        *)
(* invalid-key error (IllegalParams) and leave the index and the iterator  *)
(* as they were; replace with a wrong-sized new key does not delete old's  *)
(* entry.                                                                  *)
C8_WrongSizeKeyRejected ==
    []C8_WrongSizeFails /\ [][C8_FailedCallKeepsState]_vars

\* A replace was refused while the index held a record.
C8_Witness ==
    /\ ret.op = "replace" /\ ret.err = "IllegalParams"
    /\ ret.old = "other_key"
    /\ Index_size(variant, hash) >= 1

(* C4. After a keyed initIterator and while the index is not changed, the   *)
(* results of next_equal are: first the record find returns for the key    *)
(* (end-of-sequence, NULL, when the key has no entry), then NULL on every  *)
(* later call.                                                             *)
C4_KeyedIteratorSequence ==
    (trace.mode = "eq") =>
        /\ Len(trace.out) = trace.eq_calls \/ trace.eq_calls = 2
        /\ \A n \in 1..Len(trace.out) :
              trace.out[n] = IF n = 1 THEN FindVal(hash, trace.key) ELSE NULL

\* A keyed iterator over a present key has returned its record and then
\* end-of-sequence.
C4_Witness ==
    /\ trace.mode = "eq" /\ ret.op = "next_equal"
    /\ Len(trace.out) = 2
    /\ trace.out[1] # NULL /\ trace.out[2] = NULL
    /\ Index_size(variant, hash) = MaxKey

(* C5. After an unkeyed initIterator and while the index is not changed,   *)
(* the first size() results of next are indexed records, all different,    *)
(* and together all the indexed records; every result after them is        *)
(* end-of-sequence (NULL).                                                 *)
C5_UnkeyedIteratorScan ==
    (trace.mode = "all") =>
        LET out == trace.out
            size == Index_size(variant, hash)
        IN /\ \A n \in 1..Len(out) :
                 IF n <= size THEN out[n] \in Records(hash) ELSE out[n] = NULL
           /\ \A m, n \in 1..Len(out) :
                 (m < n /\ n <= size) => out[m] # out[n]
           /\ Len(out) >= size => {out[n] : n \in 1..size} = Records(hash)
           /\ Cardinality(Records(hash)) = size

\* An unkeyed scan has skipped a vacant slot, returned every record and then
\* end-of-sequence.
C5_Witness ==
    /\ trace.mode = "all" /\ ret.op = "next"
    /\ \E i \in ExistSlots(hash) : \E j \in 0..(i - 1) : ~mh_exist(hash, j)
    /\ Len(trace.out) = Index_size(variant, hash) + 1
    /\ trace.out[Len(trace.out)] = NULL

\* A step that calls next_equal on an iterator already advanced through
\* next_equal since its last initIterator returns end-of-sequence.
C6_LaterNextEqual ==
    (ret'.op = "next_equal" /\ trace.eq_calls >= 1) =>
        /\ ret'.err = "ok" /\ ret'.val = NULL
        /\ it' = it

(* C6. Once an iterator set up by a keyed initIterator has been advanced   *)
(* through next_equal, every later next_equal call returns                 *)
(* end-of-sequence (NULL) until initIterator is called again, whatever     *)
(* replace and remove calls change the index in between.                   *)
C6_ExhaustedStaysExhausted == [][C6_LaterNextEqual]_vars

\* next_equal was called again after the index changed under an iterator
\* that had already been advanced.
C6_Witness ==
    /\ ret.op = "next_equal" /\ ret.err = "ok"
    /\ trace.eq_calls = 2 /\ trace.mode = "dirty"
    /\ Index_size(variant, hash) >= 1

HasDuplicate(fields) ==
    \E i, j \in 1..Len(fields) : i < j /\ fields[i] = fields[j]

\* From the current heap, tuple_dictionary_new of any name list returns NULL
\* (0) exactly when the list has a duplicate; a failed call sets the duplicate
\* error and returns the heap and the allocation counts it was given.
C9_NewOutcome ==
    \A a \in 1..MaxDicts :
        ~dicts[a].used =>
            \A fields \in NameLists :
                LET r == tuple_dictionary_new(dicts, live, a, fields,
                                              Len(fields))
                IN /\ (r.rc = 0) <=> HasDuplicate(fields)
                   /\ r.rc = 0 =>
                         /\ r.err = "ER_SPACE_FIELD_IS_DUPLICATE"
                         /\ r.dicts = dicts
                         /\ r.live = live
                   /\ r.rc # 0 =>
                         /\ r.rc = a /\ r.err = NoError
                         /\ r.dicts[a].used
                         /\ r.dicts[a].name_count = Len(fields)
                         /\ r.dicts[a].names.strs = fields

\* A failed tuple_dictionary_new step leaves no trace on the heap.
C9_FailedNewKeepsHeap ==
    (dret'.op = "new" /\ dret'.rc = 0) =>
        /\ dret'.err = "ER_SPACE_FIELD_IS_DUPLICATE"
        /\ dicts' = dicts
        /\ live' = live
        /\ built' = built

(* C9. tuple_dictionary_new fails (returns NULL and sets the duplicate     *)
(* field name error) if and only if two positions of the name list hold    *)
(* the same name; on failure the hash, the names buffer and the wrapper    *)
(* are freed and the heap is as it was before the call.                    *)
C9_NewFailsIffDuplicate == []C9_NewOutcome /\ [][C9_FailedNewKeepsHeap]_vars

\* A construction has failed and nothing stays allocated.
C9_Witness ==
    /\ dret.op = "new" /\ dret.rc = 0
    /\ dret.err = "ER_SPACE_FIELD_IS_DUPLICATE"
    /\ live = NoAllocs

\* For every live dictionary and every name, looked up with its length and
\* its hash: the position of the name in the list the dictionary was built
\* from, or -1 with the output cell as the caller left it.
C10_LookupOutcome ==
    \A a \in 1..MaxDicts :
        dicts[a].used =>
            \A name \in LookupNames, cell \in {<<>>, <<MaxNames>>} :
                LET r == tuple_fieldno_by_name(
                             dicts[a], name, strlen(name),
                             field_name_hash(name, strlen(name)), cell)
                    at == {i \in 1..Len(built[a]) : built[a][i] = name}
                IN IF at # {}
                   THEN r.rc = 0 /\ \E i \in at : r.fieldno = <<i - 1>>
                   ELSE r = [rc |-> -1, fieldno |-> cell]

\* A lookup step that reports absent leaves the output cell alone.
C10_MissKeepsFieldno ==
    (dret'.op = "fieldno_by_name" /\ dret'.rc = -1) =>
        dret'.fieldno = dret.fieldno

(* C10. In a dictionary built from names n_0 .. n_{c-1},                   *)
(* tuple_fieldno_by_name of n_i returns 0 and sets the field number to i;  *)
(* of a name not in the list it returns -1 and does not write the field    *)
(* number; a dictionary built from no names returns -1 for every name.     *)
C10_FieldnoByName == []C10_LookupOutcome /\ [][C10_MissKeepsFieldno]_vars

\* The last name of a full list was found after an earlier lookup.
C10_Witness ==
    /\ dret.op = "fieldno_by_name" /\ dret.rc = 0
    /\ dret.fieldno = <<MaxNames - 1>>
    /\ \E a \in 1..MaxDicts : dicts[a].used /\ Len(built[a]) = MaxNames

----------------------------------------------------------------------------
(* C14. findByTuple(record) on a hash index fails with ER_NO_SUCH_FIELD    *)
(* when the record has no field at the field number of the key definition, *)
(* and leaves the index unchanged; otherwise it returns exactly what find  *)
(* returns on the indexed field of the record.                             *)

QueryArgs(v) == QueryTuples(v) \cup Tuples(v)

C14_Outcome ==
    variant \in Variants =>
       /\ \A t \in QueryArgs(variant) :
             LET r == HashIndex_findByTuple(variant, hash, t)
                 fieldno == key_def.parts[1].fieldno
             IN IF Len(t.fields) <= fieldno
                THEN r.err = "ER_NO_SUCH_FIELD" /\ r.val = NULL
                ELSE r = Index_find(variant, hash, t.fields[fieldno + 1])
       /\ ret.op = "findByTuple" =>
             \E t \in QueryArgs(variant) :
                LET r == HashIndex_findByTuple(variant, hash, t)
                IN ret.err = r.err /\ ret.val = r.val

C14_CallKeepsIndex ==
    ret'.op = "findByTuple" =>
       /\ hash' = hash /\ it' = it /\ present' = present /\ ~fatal'
       /\ ret'.err \in {"ok", "ER_NO_SUCH_FIELD", "IllegalParams"}

C14_FindByTuple == []C14_Outcome /\ [][C14_CallKeepsIndex]_vars

C14_Witness ==
    /\ ret.op = "findByTuple"
    /\ ret.err = "ER_NO_SUCH_FIELD"
    /\ mh_size(hash) = MaxQueryKey

----------------------------------------------------------------------------
(* C17. Index alloc chooses the class of the index: for HASH by the type   *)
(* of the first key part (NUM: Hash32Index, NUM64: Hash64Index, STRING:    *)
(* HashStrIndex), for TREE a TreeIndex whatever the key; every other       *)
(* combination ends in panic("unsupported index type") and no index.       *)

C17_Class(type, key_type) ==
    IF type = "TREE" THEN "TreeIndex"
    ELSE IF type = "HASH" /\ key_type = "NUM" THEN "Hash32"
    ELSE IF type = "HASH" /\ key_type = "NUM64" THEN "Hash64"
    ELSE IF type = "HASH" /\ key_type = "STRING" THEN "HashStr"
    ELSE "panic"

C17_AllocDispatch ==
    /\ \A type \in IndexTypes, key_type \in FieldTypes :
          Index_alloc(type, key_type) = C17_Class(type, key_type)
    /\ variant # "none" =>
          /\ kind.type \in IndexTypes /\ kind.key_type \in FieldTypes
          /\ variant = C17_Class(kind.type, kind.key_type)
    /\ variant = "panic" =>
          /\ fatal
          /\ ret = Call("alloc", "unsupported index type", NULL, "none")
          /\ mh_size(hash) = 0
    /\ (ret.op = "alloc" /\ variant # "panic") => ret.err = "ok" /\ ~fatal

C17_Witness ==
    /\ kind = [type |-> "HASH", key_type |-> "OTHER"]
    /\ variant = "panic"
    /\ fatal

----------------------------------------------------------------------------
(* C18. min and max on a hash index (Hash32, Hash64, HashStr) always fail  *)
(* with ER_UNSUPPORTED, whatever the index holds, and leave it unchanged.  *)

C18_Outcome ==
    variant \in Variants =>
       /\ HashIndex_min(hash).err = "ER_UNSUPPORTED"
       /\ HashIndex_max(hash).err = "ER_UNSUPPORTED"
       /\ ret.op \in {"min", "max"} =>
             ret.err = "ER_UNSUPPORTED" /\ ret.val = NULL

C18_CallKeepsIndex ==
    ret'.op \in {"min", "max"} =>
       hash' = hash /\ it' = it /\ present' = present /\ ~fatal'

C18_MinMaxUnsupported == []C18_Outcome /\ [][C18_CallKeepsIndex]_vars

C18_Witness ==
    /\ ret.op = "min"
    /\ ret.err = "ER_UNSUPPORTED"
    /\ mh_size(hash) = MaxQueryKey

----------------------------------------------------------------------------
(* C19. A successful replace(old, new) deletes the entry under key(old)    *)
(* when old is not NULL, then stores new under key(new) over any record    *)
(* there: afterwards find(key(new)) = new, find(key(old)) is NULL when     *)
(* key(old) differs from key(new), and the entry of every other key is     *)
(* what it was. A successful remove(t) changes only the entry under        *)
(* key(t). key(old) is the key the class reads from old_tuple.             *)

KeyOfField(v, f) == KeyValue(v, [id |-> 0, fields |-> <<f>>], <<>>)

C19_ReplacePost(o, n, pad) ==
    \A r \in {Index_replace(variant, hash, o, n, pad)} :
       r.err = "ok" =>
          \A f \in QueryFields(variant) :
             LET k == KeyOfField(variant, f)
             IN IF k = KeyValue(variant, n, <<>>)
                THEN FindVal(r.hash, f) = n
                ELSE IF o # NULL /\ k = KeyValue(variant, o, pad)
                THEN FindVal(r.hash, f) = NULL
                ELSE FindVal(r.hash, f) = FindVal(hash, f)

C19_RemovePost(t) ==
    \A r \in {Index_remove(variant, hash, t)} :
       r.err = "ok" =>
          \A f \in QueryFields(variant) :
             IF KeyOfField(variant, f) = KeyValue(variant, t, <<>>)
             THEN FindVal(r.hash, f) = NULL
             ELSE FindVal(r.hash, f) = FindVal(hash, f)

C19_ReplaceRemoveFrame ==
    variant \in Variants =>
       /\ \A o \in QueryArgs(variant) \cup {NULL}, n \in QueryArgs(variant) :
             \A pad \in OldTails(variant, o) : C19_ReplacePost(o, n, pad)
       /\ \A t \in QueryArgs(variant) : C19_RemovePost(t)
       /\ ret.op \in {"replace", "remove"} => ret.err = "ok"

C19_Witness ==
    /\ ret.op = "replace"
    /\ ret.err = "ok"
    /\ ret.old = "other_key"
    /\ mh_size(hash) = MaxQueryKey - 1
    /\ Tombstones(hash) # {}

----------------------------------------------------------------------------
(* C15, as claimed. A keyed initIterator with part_count different from 1  *)
(* fails with a reported error: the call returns an error value, the       *)
(* process goes on, and the index and the iterator are as before the call. *)

C15_WrongPartCountStep ==
    \A f \in Fields(variant), nd \in BOOLEAN :
       InitIteratorKey(f, 2, nd) =>
          /\ ret'.err \notin {"ok", "abort"}
          /\ ~fatal'
          /\ it' = it
          /\ hash' = hash

C15_WrongPartCountReported == [][C15_WrongPartCountStep]_vars

----------------------------------------------------------------------------
(* C20, as claimed. Whatever replace and remove calls are made between a   *)
(* keyed initIterator(it, key, 1) and the first advance of the iterator,   *)
(* that advance returns NULL or a record whose indexed key is key.         *)

C20_FirstAdvanceStep ==
    (/\ trace.mode \in {"eq", "stale"}
     /\ trace.eq_calls = 0
     /\ ret'.op \in {"next", "next_equal"}
     /\ ret'.err = "ok")
    => (ret'.val = NULL \/ KeyField(ret'.val) = trace.key)

C20_KeyedIteratorYieldsItsKey == [][C20_FirstAdvanceStep]_vars

----------------------------------------------------------------------------
(* Observations of the dictionaries *)

Sign(x) == IF x > 0 THEN 1 ELSE IF x < 0 THEN -1 ELSE 0

\* Order of two C strings: by the first byte that differs, a proper prefix
\* first.
StrOrder(s1, s2) ==
    LET n == IF Len(s1) < Len(s2) THEN Len(s1) ELSE Len(s2)
        diff == {i \in 1..n : s1[i] # s2[i]}
    IN IF diff = {} THEN Sign(Len(s1) - Len(s2))
       ELSE LET i == CHOOSE j \in diff : \A k \in diff : j <= k
            IN Sign(s1[i] - s2[i])

\* Order of two name lists: by the count, then by the first position whose
\* names differ.
ListOrder(l1, l2) ==
    IF Len(l1) # Len(l2) THEN Sign(Len(l1) - Len(l2))
    ELSE LET diff == {i \in 1..Len(l1) : l1[i] # l2[i]}
         IN IF diff = {} THEN 0
            ELSE LET i == CHOOSE j \in diff : \A k \in diff : j <= k
                 IN StrOrder(l1[i], l2[i])

\* Every dictionary tuple_dictionary_new can build, with its name list.
AllDicts ==
    {[list |-> l,
      dict |-> tuple_dictionary_new([x \in {1} |-> FreeDict], NoAllocs, 1, l,
                                    Len(l)).dicts[1]] :
        l \in {f \in NameLists : ~HasDuplicate(f)}}

LivePairs == {p \in PairAddrs \X PairAddrs : dicts[p[1]].used /\ dicts[p[2]].used}

\* The lookups a caller can make, and the answer of dictionary d to each.
Lookups ==
    {q \in [name : LookupNames, len : 0..2, hash : 0..1] :
        q.len <= strlen(q.name)}

Answers(d) ==
    [q \in Lookups |-> tuple_fieldno_by_name(d, q.name, q.len, q.hash, <<>>)]

----------------------------------------------------------------------------
(* C11. tuple_dictionary_cmp is a total order on dictionaries: the sign of *)
(* cmp(a, b) is that of comparing the name counts and then the names       *)
(* position by position; cmp(a, a) = 0, cmp(b, a) has the opposite sign,   *)
(* cmp is transitive, and cmp(a, b) = 0 exactly when the two name lists    *)
(* are the same.                                                           *)

C11_CmpTotalOrder ==
    /\ \A p \in LivePairs :
          LET x == dicts[p[1]]
              y == dicts[p[2]]
          IN \A c \in {tuple_dictionary_cmp(x, y)} :
                /\ Sign(c) = ListOrder(built[p[1]], built[p[2]])
                /\ tuple_dictionary_cmp(x, x) = 0
                /\ Sign(c) = -Sign(tuple_dictionary_cmp(y, x))
                /\ (c = 0) <=> (built[p[1]] = built[p[2]])
                /\ \A z \in AllDicts :
                      /\ (c <= 0 /\ tuple_dictionary_cmp(y, z.dict) <= 0)
                            => tuple_dictionary_cmp(x, z.dict) <= 0
                      /\ (tuple_dictionary_cmp(z.dict, x) <= 0 /\ c <= 0)
                            => tuple_dictionary_cmp(z.dict, y) <= 0
                      /\ Sign(tuple_dictionary_cmp(x, z.dict))
                            = ListOrder(built[p[1]], z.list)
    /\ dret.op = "cmp" =>
          \E p \in LivePairs :
             dret.rc = tuple_dictionary_cmp(dicts[p[1]], dicts[p[2]])

C11_Witness ==
    /\ dret.op = "cmp"
    /\ dret.rc # 0
    /\ dicts[1].used /\ dicts[2].used
    /\ Len(built[1]) = MaxNames /\ Len(built[2]) = MaxNames
    /\ built[1][1] = built[2][1]

----------------------------------------------------------------------------
(* C12. tuple_dictionary_swap(a, b) exchanges the names, the hash and the  *)
(* name count of the two wrappers, so that every lookup through a gives    *)
(* what it gave through b before and vice versa, while the reference       *)
(* counts of a and b stay what they were; a second swap(a, b) restores     *)
(* both dictionaries.                                                      *)

Content(d) == [name_count |-> d.name_count, names |-> d.names, hash |-> d.hash]

C12_SwapTwiceRestores ==
    \A p \in LivePairs :
       \A h \in {tuple_dictionary_swap(dicts, p[1], p[2])} :
          /\ tuple_dictionary_swap(h, p[1], p[2]) = dicts
          /\ Content(h[p[1]]) = Content(dicts[p[2]])
          /\ Content(h[p[2]]) = Content(dicts[p[1]])

C12_SwapStep ==
    \A a \in PairAddrs, b \in PairAddrs :
       DictSwap(a, b) =>
          /\ dicts'[a].refs = dicts[a].refs
          /\ dicts'[b].refs = dicts[b].refs
          /\ dicts'[a].used /\ dicts'[b].used
          /\ Content(dicts'[a]) = Content(dicts[b])
          /\ Content(dicts'[b]) = Content(dicts[a])
          /\ Answers(dicts'[a]) = Answers(dicts[b])
          /\ Answers(dicts'[b]) = Answers(dicts[a])
          /\ live' = live
          /\ ~fatal'

C12_SwapExchangesContents == []C12_SwapTwiceRestores /\ [][C12_SwapStep]_vars

C12_Witness ==
    /\ dret.op = "swap"
    /\ dicts[1].used /\ dicts[2].used
    /\ dicts[1].refs # dicts[2].refs
    /\ Len(built[1]) = MaxNames /\ built[2] = <<>>

----------------------------------------------------------------------------
(* C13. Reference counting of a dictionary: a new or duplicated dictionary *)
(* has count 1, ref adds 1, unref subtracts 1; the hash, the names buffer  *)
(* and the wrapper are released exactly by the unref that brings the count *)
(* to 0, never while the count is positive.                                *)

NamedDicts == {a \in PairAddrs : dicts[a].used /\ dicts[a].name_count > 0}

C13_LiveIffCounted ==
    /\ \A a \in PairAddrs :
          /\ dicts[a].used <=> dicts[a].refs > 0
          /\ ~dicts[a].used => dicts[a] = FreeDict
    /\ live.dict = Cardinality({a \in PairAddrs : dicts[a].used})
    /\ live.names = Cardinality(NamedDicts)
    /\ live.hash = Cardinality(NamedDicts)

C13_CountStep ==
    /\ (dret'.op \in {"new", "dup"} /\ dret'.rc # 0) =>
          /\ ~dicts[dret'.rc].used
          /\ dicts'[dret'.rc].refs = 1
    /\ \A a \in PairAddrs :
          DictRef(a) =>
             /\ dicts' = [dicts EXCEPT ![a].refs = dicts[a].refs + 1]
             /\ live' = live
    /\ \A a \in PairAddrs, ndebug \in BOOLEAN :
          (dicts[a].used /\ DictUnref(a, ndebug)) =>
             /\ dret'.err = NoError /\ ~fatal'
             /\ IF dicts[a].refs = 1
                THEN dicts' = [dicts EXCEPT ![a] = FreeDict]
                ELSE /\ dicts' = [dicts EXCEPT ![a].refs = dicts[a].refs - 1]
                     /\ live' = live

\* unref of a dictionary whose count is 0, as claimed: an assertion failure.
C13_UnrefAtZeroFatal ==
    \A a \in PairAddrs, ndebug \in BOOLEAN :
       (dicts[a].refs = 0 /\ DictUnref(a, ndebug)) =>
          fatal' /\ dret'.err = "abort"

\* unref of a dictionary whose count is 0, by build: an assertion failure
\* where assertions are compiled in, no check and no report with NDEBUG, a
\* returned error in neither.
C13_UnrefAtZeroByBuild ==
    \A a \in PairAddrs, ndebug \in BOOLEAN :
       (dicts[a].refs = 0 /\ DictUnref(a, ndebug)) =>
          /\ dicts' = dicts /\ live' = live
          /\ dret'.rc = 0
          /\ IF ndebug THEN ~fatal' /\ dret'.err = NoError
             ELSE fatal' /\ dret'.err = "abort"

----------------------------------------------------------------------------
(* C16. tuple_dictionary_dup(d) of a live dictionary always succeeds and   *)
(* yields another dictionary with count 1 and the name list of d           *)
(* (tuple_dictionary_cmp is 0 and every lookup agrees); d keeps its        *)
(* contents and its count, and later ref, unref and swap on the copy do    *)
(* not change the count of d.                                              *)

C16_DupOutcome ==
    \A src \in PairAddrs, dst \in PairAddrs :
       (dicts[src].used /\ ~dicts[dst].used) =>
          \A r \in {tuple_dictionary_dup(dicts, live, dst, dicts[src])} :
             /\ r.rc = dst /\ r.err = NoError
             /\ r.dicts[dst].used /\ r.dicts[dst].refs = 1
             /\ r.dicts[src] = dicts[src]
             /\ r.dicts[dst].names.strs = built[src]
             /\ tuple_dictionary_cmp(r.dicts[dst], dicts[src]) = 0
             /\ tuple_dictionary_cmp(dicts[src], r.dicts[dst]) = 0
             /\ Answers(r.dicts[dst]) = Answers(dicts[src])
             /\ r.live.dict = live.dict + 1

C16_OthersKeepCount ==
    /\ dret'.op = "dup" =>
          /\ dret'.rc \in PairAddrs
          /\ \A b \in PairAddrs \ {dret'.rc} : dicts'[b] = dicts[b]
    /\ \A a \in PairAddrs :
          DictRef(a) => \A b \in PairAddrs \ {a} : dicts'[b] = dicts[b]
    /\ \A a \in PairAddrs, ndebug \in BOOLEAN :
          DictUnref(a, ndebug) =>
             \A b \in PairAddrs \ {a} : dicts'[b] = dicts[b]
    /\ \A a \in PairAddrs, b \in PairAddrs :
          DictSwap(a, b) => \A c \in PairAddrs : dicts'[c].refs = dicts[c].refs

C16_DupIsIndependentCopy == []C16_DupOutcome /\ [][C16_OthersKeepCount]_vars

C16_Witness ==
    /\ dret.op = "dup"
    /\ dret.rc = 2
    /\ dicts[1].refs = MaxRefs
    /\ dicts[2].refs = 1
    /\ built[2] = built[1]
    /\ Len(built[2]) = MaxNames

----------------------------------------------------------------------------
(* build_indexes *)

SpaceIds == 0..(BOX_SPACE_MAX - 1)
SlotIds == 0..(BOX_INDEX_MAX - 1)

\* The first empty slot of space n after the primary key.
FirstEmpty(n) ==
    CHOOSE idx \in 1..(BOX_INDEX_MAX - 1) :
        /\ space[n].index[idx] = nil
        /\ \A j \in 1..(idx - 1) : space[n].index[j] # nil

\* The slots build_indexes is to build: the TREE indexes of the enabled
\* spaces at the positions from 1 up to the first empty slot.
DueBuilds ==
    {id \in SpaceIds \X SlotIds :
        /\ space[id[1]].enabled
        /\ id[2] >= 1
        /\ id[2] < FirstEmpty(id[1])
        /\ space[id[1]].index[id[2]].type = "TREE"}

\* Slot a comes before slot b: in an earlier space, or in the same space at
\* a lower position.
SlotBefore(a, b) == a[1] < b[1] \/ (a[1] = b[1] /\ a[2] < b[2])

\* The loops of build_indexes have gone past slot id.
SlotPassed(id) ==
    \/ bpos.pc = "done"
    \/ id[1] < bpos.n
    \/ bpos.pc = "slot" /\ id[1] = bpos.n /\ id[2] < bpos.idx

\* The build calls are calls on due slots, each with the primary key of the
\* slot's own space, in ascending order of space and position, and none of
\* the due slots the loops have gone past is missing; when build_indexes has
\* returned these are all the due slots.
C21_Calls ==
    /\ \A i \in 1..Len(blog) :
          /\ blog[i].index \in DueBuilds
          /\ blog[i].pk = <<blog[i].index[1], 0>>
          /\ \/ SlotPassed(blog[i].index)
             \/ fatal /\ i = Len(blog) /\ blog[i].index = <<bpos.n, bpos.idx>>
    /\ \A i \in 1..Len(blog), j \in 1..Len(blog) :
          i < j => SlotBefore(blog[i].index, blog[j].index)
    /\ \A id \in DueBuilds :
          SlotPassed(id) => \E i \in 1..Len(blog) : blog[i].index = id
    /\ bpos.pc = "done" => {blog[i].index : i \in 1..Len(blog)} = DueBuilds

\* The indexes built are the due ones the loops have gone past, each built
\* from the primary key of its space; every other slot (the primary keys, the
\* HASH indexes, the slots of disabled spaces and of spaces without a
\* secondary key, the slots after the first empty one) is as configured.
C21_Indexes ==
    \A n \in SpaceIds, idx \in SlotIds :
        space[n].index[idx].built_from =
            IF <<n, idx>> \in DueBuilds /\ SlotPassed(<<n, idx>>)
            THEN space[n].index[0].id
            ELSE <<>>

\* No step changes an enabled flag, the position of an index or its type.
C21_Frame ==
    \A n \in SpaceIds :
        /\ space'[n].enabled = space[n].enabled
        /\ \A idx \in SlotIds :
              /\ space'[n].index[idx].id = space[n].index[idx].id
              /\ space'[n].index[idx].type = space[n].index[idx].type

\* C21: build_indexes bulk-builds, from the primary key (index 0) of the
\* space, exactly the secondary indexes (position >= 1, up to the first empty
\* slot) of type TREE of every enabled space, in ascending index position; it
\* never builds a primary key, never touches a HASH secondary index, and does
\* nothing for disabled spaces or spaces with no secondary index.
C21_BuildsTreeSecondaries ==
    /\ [](bpos.pc # "idle" => C21_Calls /\ C21_Indexes)
    /\ [][C21_Frame]_vars

\* build_indexes has returned after it skipped a HASH secondary index, built
\* the TREE index after it, and built two TREE indexes of another space whose
\* primary key is a TREE index too.
C21_Witness ==
    /\ bpos.pc = "done"
    /\ Len(blog) = 3
    /\ \E n \in SpaceIds :
          /\ space[n].index[1].type = "HASH"
          /\ space[n].index[2].built_from = <<n, 0>>
    /\ \E n \in SpaceIds :
          /\ space[n].index[0].type = "TREE"
          /\ space[n].index[1].built_from = <<n, 0>>
          /\ space[n].index[2].built_from = <<n, 0>>

----------------------------------------------------------------------------
(* cluster_add_server *)

\* The ids of the calls so far that carried the local UUID and an id that is
\* not reserved.
LocalIds == SelectSeq(called, LAMBDA id : ~cserver_id_is_reserved(id))

\* The calls the claim is about: a UUID that is not nil, an id that is not
\* reserved.
ValidCalls ==
    {c \in Uuids \X ServerIds :
        ~tt_uuid_is_nil(c[1]) /\ ~cserver_id_is_reserved(c[2])}

\* A valid call registers its id in the vector clock and changes nothing
\* else of the recovery but, at most, the local server id; a call with
\* another UUID than the local one leaves the local server id as it is.
C22_RegisterStep ==
    \A c \in ValidCalls, ndebug \in BOOLEAN :
        ClusterAddServer(c[1], c[2], ndebug) =>
            /\ cluster_clock(recovery_state') =
                  cluster_clock(recovery_state) \cup {c[2]}
            /\ recovery_state'.server_uuid = recovery_state.server_uuid
            /\ c[1] # recovery_state.server_uuid =>
                  /\ recovery_state'.server_id = recovery_state.server_id
                  /\ ~fatal'

\* A valid call with the local UUID sets the local server id when it is 0.
C22_AssignStep ==
    \A c \in ValidCalls, ndebug \in BOOLEAN :
        ClusterAddServer(c[1], c[2], ndebug)
        /\ c[1] = recovery_state.server_uuid
        /\ recovery_state.server_id = 0 =>
            recovery_state'.server_id = c[2] /\ ~fatal'

\* A valid call with the local UUID when the local server id is set already:
\* the process aborts with the id as it was in a build with assertions, and
\* the id is overwritten in a build with NDEBUG.
C22_AssignAgainStep ==
    \A c \in ValidCalls, ndebug \in BOOLEAN :
        ClusterAddServer(c[1], c[2], ndebug)
        /\ c[1] = recovery_state.server_uuid
        /\ recovery_state.server_id # 0 =>
            IF ndebug
            THEN recovery_state'.server_id = c[2] /\ ~fatal'
            ELSE recovery_state'.server_id = recovery_state.server_id /\ fatal'

\* A valid call with the local UUID when the local server id is set already
\* leaves the id as it is.
C22_AssignOnceStep ==
    \A c \in ValidCalls, ndebug \in BOOLEAN :
        ClusterAddServer(c[1], c[2], ndebug)
        /\ c[1] = recovery_state.server_uuid
        /\ recovery_state.server_id # 0 =>
            recovery_state'.server_id = recovery_state.server_id

\* While the process runs, the local server id is 0 or the id of the one
\* call that assigned it, the first that carried the local UUID: a later call
\* with the local UUID does not assign it again.
C22_SingleCall ==
    ~fatal =>
        \/ recovery_state.server_id = 0
        \/ LocalIds # <<>> /\ recovery_state.server_id = LocalIds[1]

\* While the process runs, the local server id is the id of the last call
\* that carried the local UUID, and 0 when there was none.
C22_LastCall ==
    ~fatal =>
        recovery_state.server_id =
            IF called = <<>> THEN 0 ELSE called[Len(called)]

----------------------------------------------------------------------------
(* Structure of a live dictionary *)

\* The hash nodes a dictionary with the names strs holds: names[i] to i.
NameNodes(strs) ==
    {[str |-> strs[i + 1], len |-> strlen(strs[i + 1]),
      hash |-> field_name_hash(strs[i + 1], strlen(strs[i + 1])),
      val |-> i] : i \in 0..(Len(strs) - 1)}

\* name_count = 0 iff hash = NULL iff names = NULL; the names buffer holds
\* name_count names and the hash holds exactly name_count entries, names[i]
\* to i.
WellFormedDict(d) ==
    /\ d.name_count = 0 <=> d.hash.null
    /\ d.hash.null <=> d.names.null
    /\ Len(d.names.strs) = d.name_count
    /\ d.hash.nodes = NameNodes(d.names.strs)
    /\ Cardinality(d.hash.nodes) = d.name_count

\* Every live dictionary is well formed, and would pass the assertions of
\* tuple_dictionary_delete once its count is 0.
C23_LiveWellFormed ==
    \A a \in PairAddrs :
        dicts[a].used =>
            /\ WellFormedDict(dicts[a])
            /\ tuple_dictionary_delete([dicts EXCEPT ![a].refs = 0], live,
                                       a).asserted

\* The unref of the last reference of a live dictionary passes the
\* assertions of tuple_dictionary_delete, in either build, and releases the
\* dictionary.
C23_DeleteStep ==
    \A a \in PairAddrs, ndebug \in BOOLEAN :
        DictUnref(a, ndebug) /\ dicts[a].refs = 1 =>
            /\ tuple_dictionary_delete([dicts EXCEPT ![a].refs = 0], live,
                                       a).asserted
            /\ ~fatal'
            /\ dret'.err = NoError
            /\ dicts'[a] = FreeDict

\* A swap leaves both dictionaries well formed.
C23_SwapStep ==
    \A a \in PairAddrs, b \in PairAddrs :
        DictSwap(a, b) =>
            WellFormedDict(dicts'[a]) /\ WellFormedDict(dicts'[b])

\* C23: in every state reachable through new, dup, ref, unref and swap every
\* live dictionary has name_count = 0 if and only if hash = NULL if and only
\* if names = NULL, and when it is not empty its hash holds exactly
\* name_count entries mapping names[i] to i; hence the assertion of
\* tuple_dictionary_delete (no hash implies no names buffer) never fails,
\* also for a dictionary that was swapped with an empty one.
C23_DictStructure ==
    /\ []C23_LiveWellFormed
    /\ [][C23_DeleteStep /\ C23_SwapStep]_vars

\* A swap has just exchanged a full dictionary and an empty one whose counts
\* differ; both are live.
C23_Witness ==
    /\ dret.op = "swap"
    /\ \E a \in PairAddrs, b \in PairAddrs :
          /\ dicts[a].used /\ dicts[b].used
          /\ dicts[a].refs < dicts[b].refs
          /\ dicts[a].name_count = 0 /\ dicts[a].hash.null
          /\ dicts[b].name_count = MaxNames /\ ~dicts[b].names.null
          /\ built[a] = <<>>

====
